---- MODULE Spec2Model ----
(***************************************************************************)
(* A model of the linenoise line editor (src/linenoise.c): the edit state  *)
(* of one line, the key handlers of linenoise_edit_feed, the history        *)
(* store, the completion loop, the per-context API and the process-wide    *)
(* variables the context API swaps in and out.                             *)
(*                                                                         *)
(* Conventions.  A C string or buffer is a sequence of bytes (0..255); C   *)
(* index i is element i+1 of the sequence.  A pointer is 0 (NULL) or the   *)
(* identifier of a heap object.  Memory allocation always succeeds.  An    *)
(* operation whose C code would read or write outside an object, or use a *)
(* freed object, sets ub and the model follows that run no further.        *)
(***************************************************************************)
EXTENDS Integers, Sequences, FiniteSets, TLC

(***************************************************************************)
(* Bytes and the UTF-8 / grapheme functions of internal/utf8.h.            *)
(***************************************************************************)
\* The codepoints the modelled keyboard can send, as UTF-8 byte sequences:
\* 'a'; U+0000 (Ctrl-@); U+0301 COMBINING ACUTE ACCENT, a grapheme extender
\* of width 0; U+200D ZERO WIDTH JOINER.
Char_a == <<97>>
Char_nul == <<0>>
Char_mark == <<204, 129>>
Char_zwj == <<226, 128, 141>>

\* The element of a set of one element; {F(x) : x \in {e}} has e evaluated
\* once, whatever the number of places F uses it in.
Only(S) == CHOOSE x \in S : TRUE

Min(a, b) == IF a < b THEN a ELSE b
Max(a, b) == IF a < b THEN b ELSE a

\* byte i (C index) of b
At(b, i) == b[i + 1]

\* bytes [from, to) (C indexes) of b
Slice(b, from, to) == [k \in 1..(to - from) |-> b[from + k]]

utf8ByteLen(c) ==
    IF c < 128 THEN 1
    ELSE IF c >= 192 /\ c < 224 THEN 2
    ELSE IF c >= 224 /\ c < 240 THEN 3
    ELSE IF c >= 240 /\ c < 248 THEN 4
    ELSE 1

IsContinuation(c) == c >= 128 /\ c < 192

\* The codepoint the n bytes at C index i encode.
CodepointOf(b, i, n) ==
    IF n = 2 THEN (At(b, i) % 32) * 64 + (At(b, i + 1) % 64)
    ELSE IF n = 3 THEN (At(b, i) % 16) * 4096 + (At(b, i + 1) % 64) * 64
                       + (At(b, i + 2) % 64)
    ELSE IF n = 4 THEN (At(b, i) % 8) * 262144 + (At(b, i + 1) % 64) * 4096
                       + (At(b, i + 2) % 64) * 64 + (At(b, i + 3) % 64)
    ELSE At(b, i)

\* decode_at(bytes, offset) clipped at end: the codepoint and its length.
utf8DecodeChar(b, i, end) ==
    LET want == utf8ByteLen(At(b, i))
        n    == Min(want, end - i)
    IN  IF n = want THEN [cp |-> CodepointOf(b, i, n), n |-> n]
        ELSE [cp |-> At(b, i), n |-> 1]

\* Start (C index) of the codepoint that ends at pos: back over continuation
\* bytes, at most three, to the prior leader.
RECURSIVE PrevStart(_, _, _)
PrevStart(b, i, pos) ==
    IF i > 0 /\ pos - i < 4 /\ IsContinuation(At(b, i))
    THEN PrevStart(b, i - 1, pos)
    ELSE i

utf8DecodePrev(b, pos) ==
    LET s == PrevStart(b, pos - 1, pos)
    IN  IF utf8ByteLen(At(b, s)) = pos - s
        THEN [cp |-> CodepointOf(b, s, pos - s), n |-> pos - s]
        ELSE [cp |-> At(b, pos - 1), n |-> 1]

isZWJ(cp) == cp = 8205
isVariationSelector(cp) == cp = 65038 \/ cp = 65039
isSkinToneModifier(cp) == cp >= 127995 /\ cp <= 127999
isCombiningMark(cp) ==
    \/ cp >= 768 /\ cp <= 879
    \/ cp >= 6832 /\ cp <= 6911
    \/ cp >= 7616 /\ cp <= 7679
    \/ cp >= 8400 /\ cp <= 8447
    \/ cp >= 65056 /\ cp <= 65071
isGraphemeExtend(cp) ==
    isZWJ(cp) \/ isVariationSelector(cp) \/ isSkinToneModifier(cp) \/ isCombiningMark(cp)

\* next_grapheme_len: the leader, then every following extender, and one more
\* codepoint after each ZWJ consumed.  cur is the C index reached, lastZWJ
\* whether the codepoint consumed last is a ZWJ.
RECURSIVE NextWalk(_, _, _, _)
NextWalk(b, cur, end, lastZWJ) ==
    IF cur >= end THEN cur
    ELSE LET d == utf8DecodeChar(b, cur, end)
         IN  IF lastZWJ \/ isGraphemeExtend(d.cp)
             THEN NextWalk(b, cur + d.n, end, isZWJ(d.cp))
             ELSE cur

utf8NextCharLen(b, pos, len) ==
    IF pos >= len THEN 0
    ELSE LET d == utf8DecodeChar(b, pos, len)
         IN  NextWalk(b, pos + d.n, len, isZWJ(d.cp)) - pos

\* prev_grapheme_len: back over the last codepoint, then on while the codepoint
\* just passed is an extender or a ZWJ stands right before it.
RECURSIVE PrevWalk(_, _, _)
PrevWalk(b, cur, cp) ==
    IF cur = 0 THEN cur
    ELSE LET p == utf8DecodePrev(b, cur)
         IN  IF isZWJ(p.cp)
             THEN IF cur - p.n = 0 THEN 0
                  ELSE LET q == utf8DecodePrev(b, cur - p.n)
                       IN  PrevWalk(b, cur - p.n - q.n, q.cp)
             ELSE IF isGraphemeExtend(cp)
             THEN PrevWalk(b, cur - p.n, p.cp)
             ELSE cur

utf8PrevCharLen(b, pos) ==
    IF pos = 0 THEN 0
    ELSE LET d == utf8DecodePrev(b, pos)
         IN  pos - PrevWalk(b, pos - d.n, d.cp)

\* Whether buf[0..len) is well-formed UTF-8: every leader is followed by the
\* continuation bytes it announces, and no continuation byte stands alone.
RECURSIVE WellFormedFrom(_, _, _)
WellFormedFrom(b, i, len) ==
    IF i >= len THEN TRUE
    ELSE LET c == At(b, i)
             n == utf8ByteLen(c)
         IN  /\ ~IsContinuation(c)
             /\ c < 248
             /\ i + n <= len
             /\ \A k \in 1..(n - 1) : IsContinuation(At(b, i + k))
             /\ WellFormedFrom(b, i + n, len)

\* The grapheme boundaries of buf[0..len): the offsets a walk by
\* utf8NextCharLen from 0 stops at, and len.
RECURSIVE BoundariesFrom(_, _, _)
BoundariesFrom(b, i, len) ==
    IF i >= len THEN {len}
    ELSE {i} \cup BoundariesFrom(b, i + utf8NextCharLen(b, i, len), len)

GraphemeBoundaries(b, len) == BoundariesFrom(b, 0, len)

(***************************************************************************)
(* C strings.                                                              *)
(***************************************************************************)
\* strlen(b + from): bytes before the first NUL at or after C index from, or
\* -1 when b holds no NUL there (the read runs off the object).
RECURSIVE StrLenFrom(_, _, _)
StrLenFrom(b, from, n) ==
    IF from + n >= Len(b) THEN -1
    ELSE IF At(b, from + n) = 0 THEN n
    ELSE StrLenFrom(b, from, n + 1)

strlen(b) == StrLenFrom(b, 0, 0)

\* strdup(b): the bytes before the first NUL (callers check strlen(b) >= 0).
strdup(b) == Slice(b, 0, strlen(b))

\* b with the bytes of s written at C index i.
Poke(b, i, s) ==
    [k \in 1..Len(b) |-> IF k > i /\ k <= i + Len(s) THEN s[k - i] ELSE b[k]]

\* memmove(b + dst, b + src, n)
memmove(b, dst, src, n) == Poke(b, dst, Slice(b, src, src + n))

(***************************************************************************)
(* Display width (internal/utf8.h).                                        *)
(***************************************************************************)
utf8CharWidth(cp) ==
    IF cp = 0 \/ isGraphemeExtend(cp) THEN 0
    ELSE IF \/ cp >= 4352 /\ cp <= 4447
            \/ cp >= 11904 /\ cp <= 40959
            \/ cp >= 44032 /\ cp <= 55215
            \/ cp >= 63744 /\ cp <= 64255
            \/ cp >= 65280 /\ cp <= 65376
            \/ cp >= 127462 /\ cp <= 127487
            \/ cp >= 127744 /\ cp <= 129535
            \/ cp >= 129536 /\ cp <= 129791
         THEN 2
    ELSE 1

\* Width of the cluster of clen bytes at C index i: that of its first codepoint.
utf8SingleCharWidth(b, i, clen) == utf8CharWidth(utf8DecodeChar(b, i, i + clen).cp)

RECURSIVE StrWidthFrom(_, _, _)
StrWidthFrom(b, i, len) ==
    IF i >= len THEN 0
    ELSE LET clen == utf8NextCharLen(b, i, len)
         IN  utf8SingleCharWidth(b, i, clen) + StrWidthFrom(b, i + clen, len)

utf8StrWidth(b, len) == StrWidthFrom(b, 0, len)

(***************************************************************************)
(* Bounds of the model.                                                    *)
(***************************************************************************)
\* Capacity of the caller's edit buffer (the buflen passed to start).
BufLen == 4
\* Capacity of the edit buffer of the sessions that type clusters of several
\* bytes.
WideBufLen == 6
\* Rows of the terminal below the row the prompt starts on that the model
\* keeps track of.
TermRows == 4
\* The history is grown by linenoise_history_add up to this many entries.
MaxHistLen == 2
\* Largest argument of linenoise_history_set_max_len.
MaxLenArg == 2
\* Heap objects (history arrays) that can be live or dangling at once.
MaxArrs == 3
\* Columns of the terminal of the sessions that scroll the line.
NarrowCols == 5

(***************************************************************************)
(* Program constants.                                                      *)
(***************************************************************************)
LINENOISE_DEFAULT_HISTORY_MAX_LEN == 100
LINENOISE_MAX_LINE == 4096
CTRL_A == 1
CTRL_B == 2
CTRL_C == 3
CTRL_D == 4
CTRL_E == 5
CTRL_F == 6
CTRL_H == 8
TAB == 9
CTRL_K == 11
CTRL_L == 12
ENTER == 13
CTRL_N == 14
CTRL_P == 16
CTRL_T == 20
CTRL_U == 21
CTRL_W == 23
ESC == 27
BACKSPACE == 127
LINENOISE_HISTORY_NEXT == 0
LINENOISE_HISTORY_PREV == 1

(***************************************************************************)
(* The heap of history arrays.  An array object holds cap pointer slots;   *)
(* slots lists the slots written so far and the ones after them are NULL   *)
(* (the array is zeroed when allocated).  A slot is a string, NullPtr, or  *)
(* Dangling (a pointer to a string that was freed).                        *)
(***************************************************************************)
NullPtr == <<-1>>
Dangling == <<-2>>
ArrIds == 1..MaxArrs
UnusedArr == [st |-> "unused", cap |-> 0, slots |-> <<>>]

IsString(v) == v # NullPtr /\ v # Dangling

\* Whether history[i] may be read or written through pointer p.
SlotOk(h, p, i) == p # 0 /\ h[p].st = "live" /\ i >= 0 /\ i < h[p].cap

SlotGet(h, p, i) == IF i < Len(h[p].slots) THEN h[p].slots[i + 1] ELSE NullPtr

SlotSet(h, p, i, v) ==
    LET old == h[p].slots
        n   == Max(Len(old), i + 1)
    IN  [h EXCEPT ![p].slots =
            [k \in 1..n |-> IF k = i + 1 THEN v
                            ELSE IF k <= Len(old) THEN old[k] ELSE NullPtr]]

\* malloc of a zeroed array of cap slots: the new heap and the pointer.
HasFreeId(h) == \E a \in ArrIds : h[a].st = "unused"
NewId(h) == CHOOSE a \in ArrIds : h[a].st = "unused" /\ \A x \in ArrIds : h[x].st = "unused" => a <= x
AllocArr(h, cap) == [h EXCEPT ![NewId(h)] = [st |-> "live", cap |-> cap, slots |-> <<>>]]

(***************************************************************************)
(* The editing functions.  Each takes and returns a record w, the part of  *)
(* the program state one call of linenoise_edit_feed can touch:            *)
(*   l                  the linenoise_state_t the call was given           *)
(*   heap               the history arrays                                 *)
(*   history, history_len, history_max_len, mlmode, maskmode,              *)
(*   completionCallback, hintsCallback     the file-scope variables        *)
(*   inq                the bytes waiting on l.ifd                         *)
(*   errno, ret         errno and the value the call returns               *)
(*   ub                 set when the call leaves defined behaviour         *)
(***************************************************************************)
\* The prompt every modelled session is started with: "> ".
Prompt == <<62, 32>>

RetNone == [kind |-> "none", line |-> <<>>]
RetMore == [kind |-> "more", line |-> <<>>]
RetNull == [kind |-> "null", line |-> <<>>]
RetLine(s) == [kind |-> "line", line |-> s]

SetUB(w) == [w EXCEPT !.ub = TRUE]

\* l->buf[i .. i+Len(bytes)) = bytes
BufWrite(w, i, bytes) ==
    IF i < 0 \/ i + Len(bytes) > Len(w.l.buf) THEN SetUB(w)
    ELSE [w EXCEPT !.l.buf = Poke(@, i, bytes)]

(***************************************************************************)
(* Rendering.  What a call writes to the terminal is kept in w.out as a    *)
(* sequence of tokens: text, "\r" (cr), "\n" (nl), ESC [ 0 K (el), and the *)
(* cursor moves ESC [ n A / B / C (cuu, cud, cuf).  Between them, where    *)
(* the call does it, stand the resources it gets from the callbacks and    *)
(* gives back: a candidate list filled and freed, a hint returned and      *)
(* passed to the free-hints callback.  The terminal sees nothing of those. *)
(***************************************************************************)
REFRESH_CLEAN == 1
REFRESH_WRITE == 2
REFRESH_ALL == 3

\* flags & f, for f one of the two bits
HasFlag(flags, f) == (flags \div f) % 2 = 1

Tok(op, n, s) == [op |-> op, n |-> n, s |-> s]
TokText(s) == Tok("text", 0, s)
TokCr == Tok("cr", 0, <<>>)
TokNl == Tok("nl", 0, <<>>)
TokEl == Tok("el", 0, <<>>)
TokListFilled == Tok("lc_filled", 0, <<>>)
TokListFreed == Tok("lc_freed", 0, <<>>)
TokHintReturned == Tok("hint_returned", 0, <<>>)
TokHintFreed == Tok("hint_freed", 0, <<>>)

\* abAppend and the write(2) of the buffer at the end of a renderer.
Emit(w, toks) == [w EXCEPT !.out = @ \o toks]

\* The hints callback of the application: it offers "h" for the line "a",
\* 'e' with U+0301 and then U+4E2D for the line "aa", and nothing (NULL)
\* otherwise, with no colour and not bold.
Hints(line) ==
    IF line = <<97>> THEN <<104>>
    ELSE IF line = <<97, 97>> THEN <<101, 204, 129, 228, 184, 173>>
    ELSE <<>>

\* The loop that cuts a hint to hintmaxwidth columns: the bytes kept.
RECURSIVE HintFit(_, _, _, _)
HintFit(hint, i, wd, maxwidth) ==
    IF i >= Len(hint) THEN i
    ELSE LET clen   == utf8NextCharLen(hint, i, Len(hint))
             cwidth == utf8SingleCharWidth(hint, i, clen)
         IN  IF wd + cwidth > maxwidth THEN i
             ELSE HintFit(hint, i + clen, wd + cwidth, maxwidth)

\* The part of refresh_show_Hints after the callback returned hint: the hint
\* is cut to maxw columns, and given to the free-hints callback when there
\* is one.
HintToks(hint, maxw, freeHintsCallback) ==
    IF hint = <<>> THEN <<>>
    ELSE <<TokHintReturned,
           TokText(Slice(hint, 0, IF utf8StrWidth(hint, Len(hint)) > maxw
                                  THEN HintFit(hint, 0, 0, maxw) ELSE Len(hint)))>>
         \o (IF freeHintsCallback # 0 THEN <<TokHintFreed>> ELSE <<>>)

\* refresh_show_Hints(ab, l, pwidth): the tokens it appends; bufwidth is its
\* local utf8_str_width(l->buf, l->len).
ShowHints(w, pwidth, bufwidth) ==
    IF w.hintsCallback # 0 /\ pwidth + bufwidth < w.l.cols
    THEN HintToks(Hints(strdup(w.l.buf)), w.l.cols - (pwidth + bufwidth),
                  w.freeHintsCallback)
    ELSE <<>>

refresh_show_Hints(w, pwidth) == ShowHints(w, pwidth, utf8StrWidth(w.l.buf, w.l.len))

\* One '*' for each cluster of b[i .. end).
RECURSIVE Stars(_, _, _)
Stars(b, i, end) ==
    IF i >= end THEN <<>>
    ELSE <<42>> \o Stars(b, i + Max(1, utf8NextCharLen(b, i, end)), end)

\* The first loop of refreshSingleLine: clusters are cut from the left while
\* the cursor stands at or past the right edge.  v is the view: off (how far
\* buf was advanced), len, pos, poscol, lencol; hang: the loop cannot end.
RECURSIVE TrimLeft(_, _, _, _)
TrimLeft(b, v, pwidth, cols) ==
    IF pwidth + v.poscol < cols THEN v
    ELSE LET clen   == utf8NextCharLen(b, v.off, v.off + v.len)
             cwidth == utf8SingleCharWidth(b, v.off, clen)
         IN  IF clen = 0 THEN [v EXCEPT !.hang = TRUE]
             ELSE Only({TrimLeft(b, v1, pwidth, cols) :
                        v1 \in {[v EXCEPT !.off = @ + clen, !.len = @ - clen,
                                          !.pos = @ - clen, !.poscol = @ - cwidth,
                                          !.lencol = @ - cwidth]}})

\* The second loop: clusters are cut from the right while the line is wider
\* than the terminal.
RECURSIVE TrimRight(_, _, _, _)
TrimRight(b, v, pwidth, cols) ==
    IF v.hang \/ pwidth + v.lencol <= cols THEN v
    ELSE LET clen   == utf8PrevCharLen(Slice(b, v.off, v.off + v.len), v.len)
             cwidth == utf8SingleCharWidth(b, v.off + v.len - clen, clen)
         IN  IF clen = 0 THEN [v EXCEPT !.hang = TRUE]
             ELSE Only({TrimRight(b, v1, pwidth, cols) :
                        v1 \in {[v EXCEPT !.len = @ - clen, !.lencol = @ - cwidth]}})

\* The part of the buffer refreshSingleLine shows.
SingleView(l, pwidth) ==
    Only({TrimRight(l.buf, v1, pwidth, l.cols) :
          v1 \in {TrimLeft(l.buf,
                           [off |-> 0, len |-> l.len, pos |-> l.pos,
                            poscol |-> utf8StrWidth(l.buf, l.pos),
                            lencol |-> utf8StrWidth(l.buf, l.len), hang |-> FALSE],
                           pwidth, l.cols)}})

\* refreshSingleLine(l, flags) once the view v is known.
SingleLineOf(w, flags, v, pwidth) ==
    IF v.hang THEN SetUB(w)
    ELSE IF ~HasFlag(flags, REFRESH_WRITE) THEN Emit(w, <<TokCr, TokEl>>)
    ELSE Emit(w, <<TokCr, TokText(Prompt),
                   TokText(IF w.maskmode = 1 THEN Stars(w.l.buf, v.off, v.off + v.len)
                           ELSE Slice(w.l.buf, v.off, v.off + v.len))>>
                 \o refresh_show_Hints(w, pwidth)
                 \o <<TokEl, TokCr, Tok("cuf", v.poscol + pwidth, <<>>)>>)

\* refreshSingleLine(l, flags)
refreshSingleLine(w, flags) ==
    Only({Only({SingleLineOf(w, flags, v, pwidth) : v \in {SingleView(w.l, pwidth)}}) :
          pwidth \in {utf8StrWidth(Prompt, Len(Prompt))}})

\* The "clear and go up" of refreshMultiLine, n times.
RECURSIVE ClearUp(_)
ClearUp(n) == IF n <= 0 THEN <<>> ELSE <<TokCr, TokEl, Tok("cuu", 1, <<>>)>> \o ClearUp(n - 1)

\* refreshMultiLine(l, flags) once the widths of the prompt, of the buffer
\* and of the buffer up to the cursor are known.
MultiLineOf(w, flags, pwidth, bufwidth, poswidth) ==
    LET l     == w.l
        rows  == (pwidth + bufwidth + l.cols - 1) \div l.cols
        atend == l.pos # 0 /\ l.pos = l.len /\ (poswidth + pwidth) % l.cols = 0
        rows2 == IF atend THEN rows + 1 ELSE rows
        rpos2 == (pwidth + poswidth + l.cols) \div l.cols
        col   == (pwidth + poswidth) % l.cols
        wr    == HasFlag(flags, REFRESH_WRITE)
    IN  Emit([w EXCEPT !.l.oldrows = IF wr THEN Max(rows, rows2) ELSE rows,
                       !.l.oldpos = l.pos,
                       !.l.oldrpos = IF wr THEN rpos2 ELSE @],
             (IF HasFlag(flags, REFRESH_CLEAN)
              THEN (IF l.oldrows - l.oldrpos > 0
                    THEN <<Tok("cud", l.oldrows - l.oldrpos, <<>>)>> ELSE <<>>)
                   \o ClearUp(l.oldrows - 1)
              ELSE <<>>)
             \o (IF flags % 4 # 0 THEN <<TokCr, TokEl>> ELSE <<>>)
             \o (IF wr
                 THEN <<TokText(Prompt),
                        TokText(IF w.maskmode = 1 THEN Stars(l.buf, 0, l.len)
                                ELSE Slice(l.buf, 0, l.len))>>
                      \o ShowHints(w, pwidth, bufwidth)
                      \o (IF atend THEN <<TokNl, TokCr>> ELSE <<>>)
                      \o (IF rows2 - rpos2 > 0
                          THEN <<Tok("cuu", rows2 - rpos2, <<>>)>> ELSE <<>>)
                      \o (IF col # 0 THEN <<TokCr, Tok("cuf", col, <<>>)>>
                          ELSE <<TokCr>>)
                 ELSE <<>>))

\* refreshMultiLine(l, flags)
refreshMultiLine(w, flags) ==
    IF w.l.cols = 0 THEN SetUB(w)
    ELSE Only({MultiLineOf(w, flags, ws[1], ws[2], ws[3]) :
               ws \in {<<utf8StrWidth(Prompt, Len(Prompt)),
                         utf8StrWidth(w.l.buf, w.l.len),
                         utf8StrWidth(w.l.buf, w.l.pos)>>}})

\* A call of refresh_line_with_flags(l, flags) is kept in w.out as a frame
\* token holding what the renderers read of l at the time of the call: the
\* buffer, len and pos.  rendered holds the line the last write put on the
\* terminal.
TokFrame(l, flags) == [op |-> "frame", n |-> flags, s |-> l.buf, len |-> l.len, pos |-> l.pos]

refresh_line_with_flags(w, flags) ==
    [Emit(w, <<TokFrame(w.l, flags)>>)
        EXCEPT !.rendered = IF HasFlag(flags, REFRESH_WRITE)
                            THEN <<Slice(w.l.buf, 0, Min(w.l.len, Len(w.l.buf)))>> ELSE @]

\* refresh_line(l)
refresh_line(w) == refresh_line_with_flags(w, REFRESH_ALL)

\* The body of refresh_line_with_flags for the frame token t: the renderer
\* of the mode runs on the buffer, len and pos of t and on the oldpos,
\* oldrows and oldrpos the frames before it left; its tokens take the place
\* of t.
DrawFrame(w, t) ==
    IF t.len > Len(t.s) THEN SetUB(w)
    ELSE Only({[w1 EXCEPT !.l.buf = w.l.buf, !.l.len = w.l.len, !.l.pos = w.l.pos] :
               w1 \in {IF w.mlmode # 0
                       THEN refreshMultiLine([w EXCEPT !.l.buf = t.s, !.l.len = t.len,
                                                       !.l.pos = t.pos], t.n)
                       ELSE refreshSingleLine([w EXCEPT !.l.buf = t.s, !.l.len = t.len,
                                                        !.l.pos = t.pos], t.n)}})

\* The frames among the tokens toks are drawn in order and the other tokens
\* kept, after the tokens already in w.out.
RECURSIVE DrawFrames(_, _)
DrawFrames(w, toks) ==
    IF toks = <<>> THEN w
    ELSE Only({DrawFrames(w1, Tail(toks)) :
               w1 \in {IF Head(toks).op = "frame" THEN DrawFrame(w, Head(toks))
                       ELSE Emit(w, <<Head(toks)>>)}})

\* What the call that left w wrote to the terminal, frames drawn.
Drawn(w) == Only({DrawFrames([w0 EXCEPT !.out = <<>>], w0.out) : w0 \in {w}})

(***************************************************************************)
(* The terminal.  A screen is the rows from the one the prompt starts on   *)
(* downwards, each a sequence of cells, and the cursor (r from 1, c from   *)
(* 0; c = cols after a glyph was put in the last column, the wrap being    *)
(* deferred to the next glyph).  A cell holds the bytes of the cluster     *)
(* shown there, <<0>> for the second half of a wide glyph, <<32>> when it  *)
(* is blank.  lost: the cursor left the rows kept track of.                *)
(***************************************************************************)
Blank == <<32>>
WideHalf == <<0>>

BlankScreen == [rows |-> [k \in 1..TermRows |-> <<>>], r |-> 1, c |-> 0, lost |-> FALSE]

\* A row without the blank cells at its end.
RECURSIVE TrimRow(_)
TrimRow(row) ==
    IF row # <<>> /\ row[Len(row)] = Blank THEN TrimRow(SubSeq(row, 1, Len(row) - 1))
    ELSE row

\* The row with cells from column c on replaced by the cells gs.
PutCells(row, c, gs) ==
    LET n == Max(Len(row), c + Len(gs))
    IN  TrimRow([k \in 1..n |->
                    IF k > c /\ k <= c + Len(gs) THEN gs[k - c]
                    ELSE IF k <= Len(row) THEN row[k] ELSE Blank])

\* The terminal shows the cluster g, wd columns wide.
PutGlyph(scr, g, wd, cols) ==
    IF scr.lost THEN scr
    ELSE IF wd = 0
    THEN IF scr.c >= 1
         THEN [scr EXCEPT !.rows[scr.r] =
                  PutCells(@, scr.c - 1, <<(IF Len(@) >= scr.c THEN @[scr.c] ELSE Blank) \o g>>)]
         ELSE scr
    ELSE LET wrap == scr.c + wd > cols
             r1   == IF wrap THEN scr.r + 1 ELSE scr.r
             c1   == IF wrap THEN 0 ELSE scr.c
         IN  IF r1 > TermRows THEN [scr EXCEPT !.lost = TRUE]
             ELSE [scr EXCEPT !.rows[r1] =
                                 PutCells(@, c1, <<g>> \o [k \in 1..(wd - 1) |-> WideHalf]),
                              !.r = r1, !.c = c1 + wd]

\* The terminal is sent the bytes b[i ..]: it takes them codepoint by
\* codepoint, a codepoint of no width going into the cell before the cursor.
RECURSIVE PutText(_, _, _, _)
PutText(scr, b, i, cols) ==
    IF i >= Len(b) THEN scr
    ELSE Only({PutText(PutGlyph(scr, Slice(b, i, i + d.n), utf8CharWidth(d.cp), cols),
                       b, i + d.n, cols) :
               d \in {utf8DecodeChar(b, i, Len(b))}})

\* The terminal is sent one token.
PutTok(scr, t, cols) ==
    IF scr.lost THEN scr
    ELSE IF t.op = "text" THEN PutText(scr, t.s, 0, cols)
    ELSE IF t.op = "cr" THEN [scr EXCEPT !.c = 0]
    ELSE IF t.op = "nl"
    THEN IF scr.r + 1 > TermRows THEN [scr EXCEPT !.lost = TRUE]
         ELSE [scr EXCEPT !.r = @ + 1, !.c = Min(@, cols - 1)]
    ELSE IF t.op = "el"
    THEN [scr EXCEPT !.rows[scr.r] = TrimRow(SubSeq(@, 1, Min(Len(@), scr.c)))]
    ELSE IF t.op = "cuu"
    THEN IF scr.r - Max(1, t.n) < 1 THEN [scr EXCEPT !.lost = TRUE]
         ELSE [scr EXCEPT !.r = @ - Max(1, t.n), !.c = Min(@, cols - 1)]
    ELSE IF t.op = "cud"
    THEN IF scr.r + Max(1, t.n) > TermRows THEN [scr EXCEPT !.lost = TRUE]
         ELSE [scr EXCEPT !.r = @ + Max(1, t.n), !.c = Min(@, cols - 1)]
    ELSE IF t.op = "cuf" THEN [scr EXCEPT !.c = Min(cols - 1, @ + Max(1, t.n))]
    ELSE scr

\* The screen after the tokens toks were written to the terminal.
RECURSIVE PutAll(_, _, _)
PutAll(scr, toks, cols) ==
    IF toks = <<>> THEN scr
    ELSE Only({PutAll(s1, Tail(toks), cols) : s1 \in {PutTok(scr, Head(toks), cols)}})

\* linenoise_beep()
linenoise_beep(w) == [w EXCEPT !.bell = @ + 1]

\* The append fast path of linenoise_edit_insert is taken.
FastPath(w) ==
    /\ w.mlmode = 0
    /\ utf8StrWidth(Prompt, Len(Prompt)) + utf8StrWidth(w.l.buf, w.l.len) < w.l.cols
    /\ w.hintsCallback = 0

\* linenoise_edit_insert returning -1 when the bytes do not fit.
linenoise_edit_insert_FullFails(w, c, wfail) ==
    LET l    == w.l
        clen == Len(c)
    IN  IF l.len + clen <= l.buflen
        THEN IF l.len = l.pos
             THEN LET w1 == BufWrite(w, l.pos, c)
                      w2 == BufWrite([w1 EXCEPT !.l.pos = l.pos + clen,
                                                !.l.len = l.len + clen],
                                     l.len + clen, <<0>>)
                  IN  IF w2.ub THEN w2
                      ELSE IF FastPath(w2)
                      THEN IF wfail THEN [w2 EXCEPT !.ret = RetNull]
                           ELSE [Emit(w2, <<TokText(IF w.maskmode = 1 THEN <<42>> ELSE c)>>)
                                    EXCEPT !.rendered = <<Slice(w2.l.buf, 0, w2.l.len)>>]
                      ELSE refresh_line(w2)
             ELSE LET w1 == IF l.len + clen > Len(l.buf) THEN SetUB(w)
                            ELSE [w EXCEPT !.l.buf =
                                     memmove(@, l.pos + clen, l.pos, l.len - l.pos)]
                      w2 == BufWrite(w1, l.pos, c)
                      w3 == BufWrite([w2 EXCEPT !.l.pos = l.pos + clen,
                                                !.l.len = l.len + clen],
                                     l.len + clen, <<0>>)
                  IN  IF w3.ub THEN w3 ELSE refresh_line(w3)
        ELSE [w EXCEPT !.ret = RetNull]

\* linenoise_edit_insert(l, c, clen); wfail: the direct write(2) fails.  The
\* function's return value is left in w.ret: RetNull for -1, else unchanged.
linenoise_edit_insert(w, c, wfail) ==
    LET l    == w.l
        clen == Len(c)
    IN  IF l.len + clen <= l.buflen
        THEN IF l.len = l.pos
             THEN LET w1 == BufWrite(w, l.pos, c)
                      w2 == BufWrite([w1 EXCEPT !.l.pos = l.pos + clen,
                                                !.l.len = l.len + clen],
                                     l.len + clen, <<0>>)
                  IN  IF w2.ub THEN w2
                      ELSE IF FastPath(w2)
                      THEN IF wfail THEN [w2 EXCEPT !.ret = RetNull]
                           ELSE [Emit(w2, <<TokText(IF w.maskmode = 1 THEN <<42>> ELSE c)>>)
                                    EXCEPT !.rendered = <<Slice(w2.l.buf, 0, w2.l.len)>>]
                      ELSE refresh_line(w2)
             ELSE LET w1 == IF l.len + clen > Len(l.buf) THEN SetUB(w)
                            ELSE [w EXCEPT !.l.buf =
                                     memmove(@, l.pos + clen, l.pos, l.len - l.pos)]
                      w2 == BufWrite(w1, l.pos, c)
                      w3 == BufWrite([w2 EXCEPT !.l.pos = l.pos + clen,
                                                !.l.len = l.len + clen],
                                     l.len + clen, <<0>>)
                  IN  IF w3.ub THEN w3 ELSE refresh_line(w3)
        ELSE w

linenoise_edit_move_left(w) ==
    IF w.l.pos > 0
    THEN refresh_line([w EXCEPT !.l.pos = @ - utf8PrevCharLen(w.l.buf, w.l.pos)])
    ELSE w

linenoise_edit_move_right(w) ==
    IF w.l.pos # w.l.len
    THEN refresh_line([w EXCEPT !.l.pos = @ + utf8NextCharLen(w.l.buf, w.l.pos, w.l.len)])
    ELSE w

linenoise_edit_move_home(w) ==
    IF w.l.pos # 0 THEN refresh_line([w EXCEPT !.l.pos = 0]) ELSE w

linenoiseEditMoveEnd(w) ==
    IF w.l.pos # w.l.len THEN refresh_line([w EXCEPT !.l.pos = w.l.len]) ELSE w

linenoiseEditDelete(w) ==
    LET l == w.l
    IN  IF l.len > 0 /\ l.pos < l.len
        THEN LET clen == utf8NextCharLen(l.buf, l.pos, l.len)
                 w1   == [w EXCEPT !.l.buf =
                             memmove(@, l.pos, l.pos + clen, l.len - l.pos - clen),
                                   !.l.len = l.len - clen]
             IN  refresh_line(BufWrite(w1, l.len - clen, <<0>>))
        ELSE w

\* A Backspace that deletes the one byte before the cursor.
linenoiseEditBackspace_OneByte(w) ==
    LET l == w.l
    IN  IF l.pos > 0 /\ l.len > 0
        THEN LET w1 == [w EXCEPT !.l.buf = memmove(@, l.pos - 1, l.pos, l.len - l.pos),
                                 !.l.pos = l.pos - 1,
                                 !.l.len = l.len - 1]
             IN  refresh_line(BufWrite(w1, l.len - 1, <<0>>))
        ELSE w

linenoiseEditBackspace(w) ==
    LET l == w.l
    IN  IF l.pos > 0 /\ l.len > 0
        THEN LET clen == utf8PrevCharLen(l.buf, l.pos)
                 w1   == [w EXCEPT !.l.buf =
                             memmove(@, l.pos - clen, l.pos, l.len - l.pos),
                                   !.l.pos = l.pos - clen,
                                   !.l.len = l.len - clen]
             IN  refresh_line(BufWrite(w1, l.len - clen, <<0>>))
        ELSE w

\* The two skipping loops of linenoiseEditDeletePrevWord: the position they
\* leave.  spaces is TRUE in the first loop (skip ' ').
RECURSIVE SkipBack(_, _, _)
SkipBack(b, pos, spaces) ==
    IF pos > 0 /\ ((At(b, pos - 1) = 32) = spaces)
    THEN SkipBack(b, pos - utf8PrevCharLen(b, pos), spaces)
    ELSE pos

linenoiseEditDeletePrevWord(w) ==
    LET l       == w.l
        old_pos == l.pos
        pos     == SkipBack(l.buf, SkipBack(l.buf, old_pos, TRUE), FALSE)
        diff    == old_pos - pos
    IN  IF l.len + 1 > Len(l.buf) THEN SetUB(w)
        ELSE refresh_line([w EXCEPT !.l.buf = memmove(@, pos, old_pos, l.len - old_pos + 1),
                                    !.l.pos = pos,
                                    !.l.len = l.len - diff])

\* case CTRL_T of linenoise_edit_feed
EditTranspose(w) ==
    LET l == w.l
    IN  IF l.pos > 0 /\ l.pos < l.len
        THEN LET prevlen   == utf8PrevCharLen(l.buf, l.pos)
                 currlen   == utf8NextCharLen(l.buf, l.pos, l.len)
                 prevstart == l.pos - prevlen
                 tmp       == Slice(l.buf, l.pos, l.pos + currlen)
                 b1        == memmove(l.buf, prevstart + currlen, prevstart, prevlen)
                 b2        == Poke(b1, prevstart, tmp)
             IN  refresh_line([w EXCEPT !.l.buf = b2,
                                        !.l.pos = IF l.pos + currlen <= l.len
                                                  THEN l.pos + currlen ELSE l.pos])
        ELSE w

\* case CTRL_U and case CTRL_K of linenoise_edit_feed
EditDeleteLine(w) ==
    refresh_line([BufWrite(w, 0, <<0>>) EXCEPT !.l.pos = 0, !.l.len = 0])

EditDeleteToEnd(w) ==
    refresh_line([BufWrite(w, w.l.pos, <<0>>) EXCEPT !.l.len = w.l.pos])

(***************************************************************************)
(* The history store.                                                      *)
(***************************************************************************)
\* memmove(history, history+1, sizeof(char*)*(m-1)) on array p
ShiftLeft(h, p, m) ==
    LET n == Max(Len(h[p].slots), m)
    IN  [h EXCEPT ![p].slots =
            [k \in 1..n |-> IF k <= m - 1 THEN SlotGet(h, p, k) ELSE SlotGet(h, p, k - 1)]]

\* HistoryAddBody without the comparison with the tail entry.
HistoryAddBody_NoDedup(h, hist, hlen, hmax, line) ==
    LET same == [heap |-> h, history |-> hist, history_len |-> hlen, rc |-> 0, ub |-> FALSE]
    IN  IF hmax = 0 THEN same
        ELSE LET h1 == IF hist = 0 THEN AllocArr(h, hmax) ELSE h
                 p  == IF hist = 0 THEN NewId(h) ELSE hist
                 s1 == [same EXCEPT !.heap = h1, !.history = p]
             IN  IF hlen = hmax
                 THEN IF ~SlotOk(h1, p, hmax - 1) \/ SlotGet(h1, p, 0) = Dangling
                      THEN [s1 EXCEPT !.ub = TRUE]
                      ELSE [s1 EXCEPT !.heap = SlotSet(ShiftLeft(h1, p, hmax), p, hlen - 1, line),
                                      !.rc = 1]
                 ELSE IF ~SlotOk(h1, p, hlen)
                 THEN [s1 EXCEPT !.ub = TRUE]
                 ELSE [s1 EXCEPT !.heap = SlotSet(h1, p, hlen, line),
                                 !.history_len = hlen + 1,
                                 !.rc = 1]

\* The body common to history_add and linenoise_history_add, on a history
\* (hist, hlen, hmax) of heap h: the new heap, pointer and length, the value
\* returned and whether the call left defined behaviour.
HistoryAddBody(h, hist, hlen, hmax, line) ==
    LET same == [heap |-> h, history |-> hist, history_len |-> hlen, rc |-> 0, ub |-> FALSE]
    IN  IF hmax = 0 THEN same
        ELSE LET h1 == IF hist = 0 THEN AllocArr(h, hmax) ELSE h
                 p  == IF hist = 0 THEN NewId(h) ELSE hist
                 s1 == [same EXCEPT !.heap = h1, !.history = p]
             IN  IF hlen # 0 /\ ~(SlotOk(h1, p, hlen - 1) /\ IsString(SlotGet(h1, p, hlen - 1)))
                 THEN [s1 EXCEPT !.ub = TRUE]
                 ELSE IF hlen # 0 /\ SlotGet(h1, p, hlen - 1) = line
                 THEN s1
                 ELSE IF hlen = hmax
                 THEN IF ~SlotOk(h1, p, hmax - 1) \/ SlotGet(h1, p, 0) = Dangling
                      THEN [s1 EXCEPT !.ub = TRUE]
                      ELSE [s1 EXCEPT !.heap = SlotSet(ShiftLeft(h1, p, hmax), p, hlen - 1, line),
                                      !.rc = 1]
                 ELSE IF ~SlotOk(h1, p, hlen)
                 THEN [s1 EXCEPT !.ub = TRUE]
                 ELSE [s1 EXCEPT !.heap = SlotSet(h1, p, hlen, line),
                                 !.history_len = hlen + 1,
                                 !.rc = 1]

\* static int history_add(const char *line), on the file-scope history
history_add(w, line) ==
    LET r == HistoryAddBody(w.heap, w.history, w.history_len, w.history_max_len, line)
    IN  [w EXCEPT !.heap = r.heap, !.history = r.history,
                  !.history_len = r.history_len, !.ub = w.ub \/ r.ub]

\* free(history[i]) of the file-scope history
FreeEntry(w, i) ==
    IF ~SlotOk(w.heap, w.history, i) \/ SlotGet(w.heap, w.history, i) = Dangling
    THEN SetUB(w)
    ELSE IF SlotGet(w.heap, w.history, i) = NullPtr THEN w
    ELSE [w EXCEPT !.heap = SlotSet(w.heap, w.history, i, Dangling)]

\* strncpy(l->buf, src, n): n bytes, src then NULs.
strncpy(b, src, n) ==
    Poke(b, 0, [k \in 1..n |-> IF k <= Len(src) THEN src[k] ELSE 0])

linenoiseEditHistoryNext(w, dir) ==
    IF w.history_len > 1
    THEN LET l   == w.l
             cur == w.history_len - 1 - l.history_index
             w1  == FreeEntry(w, cur)
         IN  IF w1.ub \/ strlen(l.buf) < 0 THEN SetUB(w1)
             ELSE LET w2  == [w1 EXCEPT !.heap = SlotSet(w1.heap, w.history, cur, strdup(l.buf))]
                      idx == l.history_index + (IF dir = LINENOISE_HISTORY_PREV THEN 1 ELSE -1)
                  IN  IF idx < 0 THEN [w2 EXCEPT !.l.history_index = 0]
                      ELSE IF idx >= w.history_len
                      THEN [w2 EXCEPT !.l.history_index = w.history_len - 1]
                      ELSE LET e == w.history_len - 1 - idx
                           IN  IF ~SlotOk(w2.heap, w.history, e)
                                  \/ ~IsString(SlotGet(w2.heap, w.history, e))
                                  \/ l.buflen < 1 \/ l.buflen > Len(l.buf)
                               THEN SetUB(w2)
                               ELSE LET b1 == strncpy(l.buf, SlotGet(w2.heap, w.history, e), l.buflen)
                                        b2 == Poke(b1, l.buflen - 1, <<0>>)
                                    IN  refresh_line([w2 EXCEPT !.l.history_index = idx,
                                                                !.l.buf = b2,
                                                                !.l.len = strlen(b2),
                                                                !.l.pos = strlen(b2)])
    ELSE w

(***************************************************************************)
(* Completion.  completionCallback is the application's; the modelled one  *)
(* offers "a" for the empty line, "aa" and a candidate as long as the      *)
(* whole edit buffer for a line that starts with 'a', nothing otherwise.   *)
(***************************************************************************)
LongCand == [k \in 1..BufLen |-> 97]

\* completionCallback(ls->buf, &lc) filled the table lc: a table with
\* candidates is heap memory, an empty one (cvec == NULL) is not.
completionFilled(w, lc) == IF Len(lc) = 0 THEN w ELSE Emit(w, <<TokListFilled>>)

\* free_completions(lc)
free_completions(w, lc) == IF Len(lc) = 0 THEN w ELSE Emit(w, <<TokListFreed>>)

Completions(line) ==
    IF line = <<>> THEN <<Char_a>>
    ELSE IF line[1] = 97 THEN << <<97, 97>>, LongCand >>
    ELSE <<>>

\* snprintf(ls->buf, ls->buflen, "%s", cand): the buffer after the call.
snprintf(b, size, cand) ==
    IF size = 0 THEN b
    ELSE Poke(b, 0, Slice(cand, 0, Min(Len(cand), size - 1)) \o <<0>>)

\* refresh_line_with_completion that leaves len and pos at the candidate's
\* length instead of putting the saved state back.
refresh_line_with_completion_NoRestore(w, lc, flags) ==
    IF w.l.completion_idx < Len(lc)
    THEN LET cand == lc[w.l.completion_idx + 1]
             w1   == refresh_line_with_flags([w EXCEPT !.l.buf = cand \o <<0>>,
                                                       !.l.len = Len(cand),
                                                       !.l.pos = Len(cand)], flags)
         IN  [w1 EXCEPT !.l.buf = w.l.buf]
    ELSE refresh_line_with_flags(w, flags)

\* refresh_line_with_completion(ls, &lc, flags): the candidate at
\* completion_idx is rendered in place of the buffer, which is put back.
refresh_line_with_completion(w, lc, flags) ==
    IF w.l.completion_idx < Len(lc)
    THEN LET cand == lc[w.l.completion_idx + 1]
             w1   == refresh_line_with_flags([w EXCEPT !.l.buf = cand \o <<0>>,
                                                       !.l.len = Len(cand),
                                                       !.l.pos = Len(cand)], flags)
         IN  [w1 EXCEPT !.l.buf = w.l.buf, !.l.len = w.l.len, !.l.pos = w.l.pos]
    ELSE refresh_line_with_flags(w, flags)

\* linenoise_hide(l)
linenoise_hide(w) == refresh_line_with_flags(w, REFRESH_CLEAN)

\* linenoise_show(l): with lc == NULL refresh_line_with_completion asks the
\* completion callback for the candidates of the line, into its own table
\* ctable, which it frees before it returns.
linenoise_show(w) ==
    IF w.l.in_completion # 0
    THEN IF w.completionCallback = 0 \/ strlen(w.l.buf) < 0 THEN SetUB(w)
         ELSE LET ctable == Completions(strdup(w.l.buf))
              IN  free_completions(
                      refresh_line_with_completion(completionFilled(w, ctable), ctable,
                                                   REFRESH_WRITE),
                      ctable)
    ELSE refresh_line_with_flags(w, REFRESH_WRITE)

\* CompleteSwitch with Tab cycling through the candidates only, the original
\* buffer never coming back.
CompleteSwitch_NoOriginal(w, lc, c) ==
    LET ls == w.l
    IN  IF c = TAB
        THEN IF ls.in_completion = 0
             THEN [w EXCEPT !.l.in_completion = 1, !.l.completion_idx = 0]
             ELSE [w EXCEPT !.l.completion_idx = (@ + 1) % Len(lc)]
        ELSE IF c = ESC
        THEN LET w1 == IF ls.completion_idx < Len(lc) THEN refresh_line(w) ELSE w
             IN  [w1 EXCEPT !.l.in_completion = 0]
        ELSE IF ls.completion_idx < Len(lc)
        THEN IF ls.buflen > Len(ls.buf) THEN SetUB(w)
             ELSE [w EXCEPT !.l.buf = snprintf(@, ls.buflen, lc[ls.completion_idx + 1]),
                            !.l.len = Len(lc[ls.completion_idx + 1]),
                            !.l.pos = Len(lc[ls.completion_idx + 1]),
                            !.l.in_completion = 0]
        ELSE [w EXCEPT !.l.in_completion = 0]

\* The switch of completeLine on the key, the table lc holding candidates.
CompleteSwitch(w, lc, c) ==
    LET ls == w.l
    IN  IF c = TAB
        THEN IF ls.in_completion = 0
             THEN [w EXCEPT !.l.in_completion = 1, !.l.completion_idx = 0]
             ELSE LET w1 == [w EXCEPT !.l.completion_idx = (@ + 1) % (Len(lc) + 1)]
                  IN  IF w1.l.completion_idx = Len(lc) THEN linenoise_beep(w1) ELSE w1
        ELSE IF c = ESC
        THEN LET w1 == IF ls.completion_idx < Len(lc) THEN refresh_line(w) ELSE w
             IN  [w1 EXCEPT !.l.in_completion = 0]
        ELSE IF ls.completion_idx < Len(lc)
        THEN IF ls.buflen > Len(ls.buf) THEN SetUB(w)
             ELSE [w EXCEPT !.l.buf = snprintf(@, ls.buflen, lc[ls.completion_idx + 1]),
                            !.l.len = Len(lc[ls.completion_idx + 1]),
                            !.l.pos = Len(lc[ls.completion_idx + 1]),
                            !.l.in_completion = 0]
        ELSE [w EXCEPT !.l.in_completion = 0]

\* completeLine that returns without freeing the table.
completeLine_NoFree(w, c) ==
    LET ls == w.l
    IN  IF strlen(ls.buf) < 0 THEN SetUB(w)
        ELSE LET lc == Completions(strdup(ls.buf))
             IN  IF Len(lc) = 0 THEN [linenoise_beep(w) EXCEPT !.l.in_completion = 0]
                 ELSE LET w1 == CompleteSwitch(completionFilled(w, lc), lc, c)
                      IN  IF w1.ub THEN w1
                          ELSE IF w1.l.in_completion # 0 /\ w1.l.completion_idx < Len(lc)
                          THEN refresh_line_with_completion(w1, lc, REFRESH_ALL)
                          ELSE refresh_line(w1)

\* completeLine(ls, keypressed): the state it leaves.
completeLine(w, c) ==
    LET ls == w.l
    IN  IF strlen(ls.buf) < 0 THEN SetUB(w)
        ELSE LET lc == Completions(strdup(ls.buf))
             IN  IF Len(lc) = 0 THEN [linenoise_beep(w) EXCEPT !.l.in_completion = 0]
                 ELSE LET w1 == CompleteSwitch(completionFilled(w, lc), lc, c)
                      IN  IF w1.ub THEN w1
                          ELSE free_completions(
                                   IF w1.l.in_completion # 0 /\ w1.l.completion_idx < Len(lc)
                                   THEN refresh_line_with_completion(w1, lc, REFRESH_ALL)
                                   ELSE refresh_line(w1),
                                   lc)

\* The value completeLine returns: the key to process next, 0 for none.
CompleteLineKey(w, c) ==
    IF Len(Completions(strdup(w.l.buf))) = 0 THEN c
    ELSE IF c = TAB \/ c = ESC THEN 0
    ELSE c

(***************************************************************************)
(* linenoise_edit_feed.                                                    *)
(***************************************************************************)
\* read(l->ifd, ..., 1) / read_byte_with_timeout: take n bytes off the input.
Consume(w, n) == [w EXCEPT !.inq = SubSeq(@, n + 1, Len(@))]

\* case ENTER
EditEnter(w) ==
    LET w1 == FreeEntry([w EXCEPT !.history_len = @ - 1], w.history_len - 1)
        w2 == IF ~w1.ub /\ w1.mlmode # 0 THEN linenoiseEditMoveEnd(w1) ELSE w1
        w3 == IF ~w2.ub /\ w2.hintsCallback # 0 THEN refresh_line(w2) ELSE w2
    IN  IF w3.ub \/ strlen(w3.l.buf) < 0 THEN SetUB(w3)
        ELSE [w3 EXCEPT !.ret = RetLine(strdup(w3.l.buf))]

\* case CTRL_C
EditInterrupt(w) == [w EXCEPT !.errno = "EAGAIN", !.ret = RetNull]

\* case CTRL_D
EditCtrlD(w) ==
    IF w.l.len > 0 THEN linenoiseEditDelete(w)
    ELSE LET w1 == FreeEntry([w EXCEPT !.history_len = @ - 1], w.history_len - 1)
         IN  [w1 EXCEPT !.errno = "ENOENT", !.ret = RetNull]

\* case ESC with a read that fails on a timeout taken for an error that ends
\* the call with NULL.
EditEscape_TimeoutFails(w) ==
    LET q == w.inq
    IN  IF Len(q) < 2 THEN [Consume(w, Len(q)) EXCEPT !.ret = RetNull]
        ELSE IF q[1] = 91
        THEN IF q[2] >= 48 /\ q[2] <= 57
             THEN IF Len(q) < 3 THEN Consume(w, 2)
                  ELSE IF q[3] = 126 /\ q[2] = 51 THEN linenoiseEditDelete(Consume(w, 3))
                  ELSE Consume(w, 3)
             ELSE IF q[2] = 65 THEN linenoiseEditHistoryNext(Consume(w, 2), LINENOISE_HISTORY_PREV)
             ELSE IF q[2] = 66 THEN linenoiseEditHistoryNext(Consume(w, 2), LINENOISE_HISTORY_NEXT)
             ELSE IF q[2] = 67 THEN linenoise_edit_move_right(Consume(w, 2))
             ELSE IF q[2] = 68 THEN linenoise_edit_move_left(Consume(w, 2))
             ELSE IF q[2] = 72 THEN linenoise_edit_move_home(Consume(w, 2))
             ELSE IF q[2] = 70 THEN linenoiseEditMoveEnd(Consume(w, 2))
             ELSE Consume(w, 2)
        ELSE IF q[1] = 79
        THEN IF q[2] = 72 THEN linenoise_edit_move_home(Consume(w, 2))
             ELSE IF q[2] = 70 THEN linenoiseEditMoveEnd(Consume(w, 2))
             ELSE Consume(w, 2)
        ELSE Consume(w, 2)

\* case ESC: the bytes of the sequence are read with a timeout, so a byte
\* that is not waiting ends the case.
EditEscape(w) ==
    LET q == w.inq
    IN  IF Len(q) < 2 THEN Consume(w, Len(q))
        ELSE IF q[1] = 91
        THEN IF q[2] >= 48 /\ q[2] <= 57
             THEN IF Len(q) < 3 THEN Consume(w, 2)
                  ELSE IF q[3] = 126 /\ q[2] = 51 THEN linenoiseEditDelete(Consume(w, 3))
                  ELSE Consume(w, 3)
             ELSE IF q[2] = 65 THEN linenoiseEditHistoryNext(Consume(w, 2), LINENOISE_HISTORY_PREV)
             ELSE IF q[2] = 66 THEN linenoiseEditHistoryNext(Consume(w, 2), LINENOISE_HISTORY_NEXT)
             ELSE IF q[2] = 67 THEN linenoise_edit_move_right(Consume(w, 2))
             ELSE IF q[2] = 68 THEN linenoise_edit_move_left(Consume(w, 2))
             ELSE IF q[2] = 72 THEN linenoise_edit_move_home(Consume(w, 2))
             ELSE IF q[2] = 70 THEN linenoiseEditMoveEnd(Consume(w, 2))
             ELSE Consume(w, 2)
        ELSE IF q[1] = 79
        THEN IF q[2] = 72 THEN linenoise_edit_move_home(Consume(w, 2))
             ELSE IF q[2] = 70 THEN linenoiseEditMoveEnd(Consume(w, 2))
             ELSE Consume(w, 2)
        ELSE Consume(w, 2)

\* default: the bytes of one UTF-8 sequence are gathered and inserted; a byte
\* that cannot be read leaves its place in utf8[] unset (junk).
EditDefault(w, c, junk, wfail) ==
    LET utf8len == utf8ByteLen(c)
        got     == Min(utf8len - 1, Len(w.inq))
        utf8    == <<c>> \o SubSeq(w.inq, 1, got) \o [k \in 1..(utf8len - 1 - got) |-> junk]
    IN  linenoise_edit_insert(Consume(w, got), utf8, wfail)

\* The switch of linenoise_edit_feed on the key c.
EditKey(w, c, junk, wfail) ==
    IF c = ENTER THEN EditEnter(w)
    ELSE IF c = CTRL_C THEN EditInterrupt(w)
    ELSE IF c = BACKSPACE \/ c = CTRL_H THEN linenoiseEditBackspace(w)
    ELSE IF c = CTRL_D THEN EditCtrlD(w)
    ELSE IF c = CTRL_T THEN EditTranspose(w)
    ELSE IF c = CTRL_B THEN linenoise_edit_move_left(w)
    ELSE IF c = CTRL_F THEN linenoise_edit_move_right(w)
    ELSE IF c = CTRL_P THEN linenoiseEditHistoryNext(w, LINENOISE_HISTORY_PREV)
    ELSE IF c = CTRL_N THEN linenoiseEditHistoryNext(w, LINENOISE_HISTORY_NEXT)
    ELSE IF c = ESC THEN EditEscape(w)
    ELSE IF c = CTRL_U THEN EditDeleteLine(w)
    ELSE IF c = CTRL_K THEN EditDeleteToEnd(w)
    ELSE IF c = CTRL_A THEN linenoise_edit_move_home(w)
    ELSE IF c = CTRL_E THEN linenoiseEditMoveEnd(w)
    ELSE IF c = CTRL_L THEN refresh_line(w)
    ELSE IF c = CTRL_W THEN linenoiseEditDeletePrevWord(w)
    ELSE EditDefault(w, c, junk, wfail)

\* linenoise_edit_feed(l) on a terminal.  rd is what the first read gives:
\* "ok" (a byte of w.inq), "again" (nothing waiting on a non-blocking
\* handle), "eof" or "err".  signed: char is a signed type in this build.
\* The value returned is left in ret; a call that sets none returns the more
\* sentinel.
linenoise_edit_feed(w0, rd, junk, wfail, signed) ==
    IF rd = "again" THEN [w0 EXCEPT !.errno = "EAGAIN", !.ret = RetMore]
    ELSE IF rd # "ok" THEN [w0 EXCEPT !.ret = RetNull]
    ELSE LET c0   == Head(w0.inq)
             w    == Consume([w0 EXCEPT !.ret = RetNone], 1)
             comp == (w.l.in_completion # 0 \/ c0 = TAB) /\ w.completionCallback # 0
             w1   == IF comp THEN completeLine(w, c0) ELSE w
             c    == IF comp /\ ~w1.ub THEN CompleteLineKey(w, c0) ELSE c0
             w2   == IF w1.ub THEN w1
                     ELSE IF comp /\ signed /\ c >= 128 THEN [w1 EXCEPT !.ret = RetNull]
                     ELSE IF comp /\ c = 0 THEN [w1 EXCEPT !.ret = RetMore]
                     ELSE EditKey(w1, c, junk, wfail)
         IN  IF w2.ret = RetNone THEN [w2 EXCEPT !.ret = RetMore] ELSE w2

(***************************************************************************)
(* Starting and stopping a session.                                        *)
(***************************************************************************)
\* get_columns(ifd, ofd): the width the terminal reports.
get_columns(w) == w.wincols

\* The width of the terminals of the model unless a specification says
\* otherwise.
DefaultCols == 80

\* enable_raw_mode(fd); ok: tcgetattr and tcsetattr succeed.  TCSAFLUSH
\* discards the input not yet read.
enable_raw_mode(w, ok) ==
    IF ok THEN [w EXCEPT !.rawmode = 1, !.inq = <<>>, !.rc = 0]
    ELSE [w EXCEPT !.errno = "ENOTTY", !.rc = -1]

\* disable_raw_mode(fd); ok: tcsetattr succeeds.
disable_raw_mode(w, ok) ==
    IF w.rawmode # 0 /\ ok THEN [w EXCEPT !.rawmode = 0] ELSE w

\* size_t arithmetic wraps around; the size_t of the model is 16 bits wide.
SizeModulus == 65536

\* edit_start(l, ..., buf, buflen, prompt), buf being w.l.buf; rawok: raw
\* mode can be entered; wok: the prompt can be written.
edit_start(w, buflen, rawok, wok) ==
    LET w1 == [w EXCEPT !.l.in_completion = 0, !.l.buflen = buflen,
                        !.l.pos = 0, !.l.oldpos = 0, !.l.len = 0]
        w2 == enable_raw_mode(w1, rawok)
    IN  IF w2.rc = -1 THEN w2
        ELSE LET w3 == BufWrite([w2 EXCEPT !.l.cols = get_columns(w), !.l.oldrows = 0,
                                           !.l.oldrpos = 1, !.l.history_index = 0],
                                0, <<0>>)
                 w4 == history_add([w3 EXCEPT !.l.buflen = (@ - 1) % SizeModulus], <<>>)
             IN  IF wok THEN [Emit(w4, <<TokText(Prompt)>>) EXCEPT !.rc = 0]
                 ELSE [w4 EXCEPT !.rc = -1]

\* edit_stop(l)
edit_stop(w, ok) == disable_raw_mode(w, ok)

(***************************************************************************)
(* The program state.                                                      *)
(***************************************************************************)
\* The contexts the application created; each edits with a state struct and
\* a buffer of BufLen bytes of its own, on a terminal handle of its own.
Ctx == {"A", "B"}

VARIABLES
    glob,              \* the file-scope variables of linenoise.c
    edit_saved_state,  \* the file-scope struct edit_saved_state
    ctx,               \* ctx[c]: the linenoise_context of c
    st,                \* st[c]: the linenoise_state_t of c's session
    heap,              \* the history arrays
    phase,             \* phase[c]: "idle", "editing" (started, feed returned
                       \* more so far), "ended" (feed returned a result and
                       \* stop is due), "reading" (inside linenoise_read)
    ret,               \* ret[c]: what the last feed, or linenoise_read, returned
    errno,
    inq,               \* inq[c]: bytes waiting on c's input handle
    read_locals,       \* the saved_* locals of the linenoise_read in progress
    ev,                \* the last call: its name, context and input
    snap,              \* snap[c]: the last call that could change c's history
                       \* (start, read, add, set_max_len) and the entries of
                       \* that history before the call
    char_signed,       \* whether char is signed in this build
    fs,                \* the history file: whether it exists, its permission
                       \* bits, its bytes, and the entries the last save wrote
    term,              \* the terminals: their width, and for each context
                       \* the screen of its terminal now (scr) and as it was
                       \* before the last linenoise_hide (hid)
    ub                 \* a call left defined behaviour

vars == <<glob, edit_saved_state, ctx, st, heap, phase, ret, errno, inq,
          read_locals, ev, snap, char_signed, fs, term, ub>>

\* linenoise_context_create()
linenoise_context_create ==
    [maskmode |-> 0, mlmode |-> 0,
     history_max_len |-> LINENOISE_DEFAULT_HISTORY_MAX_LEN,
     history_len |-> 0, history |-> 0,
     completionCallback |-> 0, hintsCallback |-> 0, freeHintsCallback |-> 0]

\* The file-scope variables when the program starts.
GlobInit ==
    [completionCallback |-> 0, hintsCallback |-> 0, freeHintsCallback |-> 0,
     maskmode |-> 0, rawmode |-> 0,
     mlmode |-> 0, history_max_len |-> LINENOISE_DEFAULT_HISTORY_MAX_LEN,
     history_len |-> 0, history |-> 0]

SavedInit ==
    [active |-> 0, maskmode |-> 0, mlmode |-> 0, completionCallback |-> 0,
     hintsCallback |-> 0, freeHintsCallback |-> 0,
     history_len |-> 0, history_max_len |-> 0, history |-> 0,
     ctx |-> "none"]

ReadLocalsInit ==
    [saved_maskmode |-> 0, saved_mlmode |-> 0, saved_completion |-> 0,
     saved_hints |-> 0, saved_freehints |-> 0, saved_history_len |-> 0,
     saved_history_max_len |-> 0, saved_history |-> 0]

\* A state struct not yet given to a start: its buffer holds fill bytes.
StateInit(fill) ==
    [in_completion |-> 0, completion_idx |-> 0, buf |-> [k \in 1..BufLen |-> fill],
     buflen |-> 0, pos |-> 0, oldpos |-> 0, len |-> 0, cols |-> 0, oldrows |-> 0,
     oldrpos |-> 0, history_index |-> 0]

\* The entries of a history (hist, hlen), oldest first.
Entries(h, hist, hlen) ==
    IF hist = 0 \/ hlen <= 0 THEN <<>>
    ELSE [i \in 1..hlen |-> SlotGet(h, hist, i - 1)]

HistoryOf(c) == Entries(heap, ctx[c].history, ctx[c].history_len)

\* The part of the state one call on c's session works on.
World(g, c, input) ==
    [l |-> st[c], heap |-> heap,
     history |-> g.history, history_len |-> g.history_len,
     history_max_len |-> g.history_max_len,
     mlmode |-> g.mlmode, maskmode |-> g.maskmode,
     completionCallback |-> g.completionCallback,
     hintsCallback |-> g.hintsCallback, freeHintsCallback |-> g.freeHintsCallback,
     rawmode |-> g.rawmode,
     inq |-> input, errno |-> errno, ret |-> RetNone, rc |-> 0, ub |-> FALSE,
     rendered |-> <<>>, bell |-> 0, out |-> <<>>, wincols |-> term.cols]

\* The terminals once context c's call wrote w.out.
TermOf(c, w) ==
    Only({[term EXCEPT !.scr[c] = s1] : s1 \in {PutAll(term.scr[c], w.out, term.cols)}})

\* The file-scope variables as a call leaves them.
GlobOf(g, w) ==
    [g EXCEPT !.history = w.history, !.history_len = w.history_len,
                 !.rawmode = w.rawmode]

\* Heap objects no pointer of the program refers to any more are given back
\* to the allocator.
Release(h, refs) ==
    [a \in ArrIds |-> IF a \in refs THEN h[a] ELSE UnusedArr]

Refs(g, saved, cx, loc) ==
    {g.history, saved.history, loc.saved_history} \cup {cx[c].history : c \in Ctx}

\* What a call that is not a feed leaves in ev.
Call(op, c) ==
    [op |-> op, c |-> c, input |-> <<>>, used |-> "none", rc |-> 0,
     rendered |-> <<>>, bell |-> 0, out |-> <<>>]

\* snap once context c made the call op.
Snap(op, c) == [snap EXCEPT ![c] = [op |-> op, h |-> HistoryOf(c)]]

\* No linenoise_read is in progress: it blocks the thread until it returns.
NoRead == \A c \in Ctx : phase[c] # "reading"

(***************************************************************************)
(* The calls of the application.                                           *)
(***************************************************************************)
\* linenoise_edit_start(ctx, l, -1, -1, buf, buflen, Prompt) with the state
\* struct and the buffer of context c; isnull: ctx is NULL.
linenoise_edit_start_args(c, isnull, buflen, rawok) ==
    /\ ~ub /\ NoRead /\ phase[c] = "idle"
    /\ ctx[c].history # 0 \/ HasFreeId(heap)
    /\ ctx[c].history_len <= MaxHistLen
    /\ IF isnull
       THEN /\ ev' = [Call("start", c) EXCEPT !.used = [isnull |-> TRUE, buflen |-> buflen],
                                              !.rc = -1]
            /\ UNCHANGED <<glob, edit_saved_state, ctx, st, heap, phase, ret, errno, inq,
                           read_locals, snap, char_signed, fs, term, ub>>
       ELSE
       LET saved == [active |-> 1, maskmode |-> glob.maskmode, mlmode |-> glob.mlmode,
                     completionCallback |-> glob.completionCallback,
                     hintsCallback |-> glob.hintsCallback,
                     freeHintsCallback |-> glob.freeHintsCallback,
                     history_len |-> glob.history_len,
                     history_max_len |-> glob.history_max_len,
                     history |-> glob.history, ctx |-> c]
           g1    == [glob EXCEPT !.maskmode = ctx[c].maskmode, !.mlmode = ctx[c].mlmode,
                                 !.completionCallback = ctx[c].completionCallback,
                                 !.hintsCallback = ctx[c].hintsCallback,
                                 !.freeHintsCallback = ctx[c].freeHintsCallback,
                                 !.history_len = ctx[c].history_len,
                                 !.history_max_len = ctx[c].history_max_len,
                                 !.history = ctx[c].history]
       IN  \E w \in {edit_start(World(g1, c, inq[c]), buflen, rawok, TRUE)} :
           \E g2 \in {GlobOf(g1, w)} :
           /\ edit_saved_state' = saved
           /\ glob' = g2
           /\ st' = [st EXCEPT ![c] = w.l]
           /\ heap' = Release(w.heap, Refs(g2, saved, ctx, read_locals))
           /\ phase' = [phase EXCEPT ![c] = IF w.rc = 0 THEN "editing" ELSE "idle"]
           /\ ret' = [ret EXCEPT ![c] = RetNone]
           /\ inq' = [inq EXCEPT ![c] = w.inq]
           /\ errno' = w.errno
           /\ ub' = w.ub
           /\ ev' = [Call("start", c) EXCEPT !.used = [isnull |-> FALSE, buflen |-> buflen],
                                             !.rc = w.rc]
           /\ snap' = Snap("start", c)
           /\ term' = [term EXCEPT !.scr[c] = PutAll(BlankScreen, w.out, term.cols)]
           /\ UNCHANGED <<ctx, read_locals, char_signed, fs>>

\* linenoise_edit_start(ctx, l, -1, -1, buf, sizeof buf, Prompt) of context c.
linenoise_edit_start(c, rawok) == linenoise_edit_start_args(c, FALSE, Len(st[c].buf), rawok)

\* One call linenoise_edit_feed(l) on c's state.  Inputs: what can arrive on
\* the handle when nothing is waiting there; Wf: whether the writes of the
\* call to the terminal fail, nothing reaching the terminal then.
Feed(c, Inputs, Wf) ==
    /\ ~ub
    /\ IF phase[c] = "reading" THEN ret[c].kind \in {"none", "more"}
       ELSE phase[c] = "editing" /\ NoRead
    /\ \E i \in (IF inq[c] = <<>> THEN Inputs ELSE {[rd |-> "ok", bytes |-> inq[c]]}),
          wfail \in Wf :
         \E w \in {Drawn(linenoise_edit_feed(World(glob, c, i.bytes), i.rd, 35, wfail,
                                              char_signed))} :
         \E g \in {GlobOf(glob, w)} :
             /\ i.rd = "again" => phase[c] = "editing"
             /\ glob' = g
             /\ st' = [st EXCEPT ![c] = w.l]
             /\ heap' = Release(w.heap, Refs(g, edit_saved_state, ctx, read_locals))
             /\ ret' = [ret EXCEPT ![c] = w.ret]
             /\ phase' = [phase EXCEPT ![c] =
                            IF @ = "editing" /\ w.ret.kind # "more" THEN "ended" ELSE @]
             /\ inq' = [inq EXCEPT ![c] = w.inq]
             /\ errno' = w.errno
             /\ ub' = w.ub
             /\ ev' = [op |-> "feed", c |-> c, input |-> i.bytes,
                       used |-> [maskmode |-> glob.maskmode, mlmode |-> glob.mlmode,
                                 completionCallback |-> glob.completionCallback,
                                 hintsCallback |-> glob.hintsCallback,
                                 history |-> glob.history],
                       rc |-> 0, rendered |-> w.rendered, bell |-> w.bell,
                       out |-> w.out]
             /\ term' = IF wfail THEN term ELSE TermOf(c, w)
             /\ UNCHANGED <<edit_saved_state, ctx, read_locals, snap, char_signed, fs>>

\* linenoise_hide(l) on c's state while its session runs; hid keeps what
\* the terminal showed before the call.
Hide(c) ==
    /\ ~ub /\ NoRead /\ phase[c] = "editing"
    /\ \E w \in {Drawn(linenoise_hide(World(glob, c, inq[c])))} :
         /\ st' = [st EXCEPT ![c] = w.l]
         /\ ub' = w.ub
         /\ ev' = [Call("hide", c) EXCEPT !.out = w.out]
         /\ term' = [TermOf(c, w) EXCEPT !.hid[c] = term.scr[c]]
         /\ UNCHANGED <<glob, edit_saved_state, ctx, heap, phase, ret, errno, inq,
                        read_locals, snap, char_signed, fs>>

\* linenoise_show(l) on c's state while its session runs.
Show(c) ==
    /\ ~ub /\ NoRead /\ phase[c] = "editing"
    /\ \E w \in {Drawn(linenoise_show(World(glob, c, inq[c])))} :
         /\ st' = [st EXCEPT ![c] = w.l]
         /\ ub' = w.ub
         /\ ev' = [Call("show", c) EXCEPT !.out = w.out]
         /\ term' = TermOf(c, w)
         /\ UNCHANGED <<glob, edit_saved_state, ctx, heap, phase, ret, errno, inq,
                        read_locals, snap, char_signed, fs>>

\* linenoise_edit_stop(l) on c's state, called once feed returned a result.
linenoise_edit_stop(c, Tc) ==
    /\ ~ub /\ NoRead /\ phase[c] = "ended"
    /\ \E ok \in Tc :
         LET g1 == [glob EXCEPT !.rawmode = edit_stop(World(glob, c, inq[c]), ok).rawmode]
             on == edit_saved_state.active # 0
             g2 == IF on
                   THEN [g1 EXCEPT !.maskmode = edit_saved_state.maskmode,
                                   !.mlmode = edit_saved_state.mlmode,
                                   !.completionCallback = edit_saved_state.completionCallback,
                                   !.hintsCallback = edit_saved_state.hintsCallback,
                                   !.freeHintsCallback = edit_saved_state.freeHintsCallback,
                                   !.history_len = edit_saved_state.history_len,
                                   !.history_max_len = edit_saved_state.history_max_len,
                                   !.history = edit_saved_state.history]
                   ELSE g1
             cx == IF on /\ edit_saved_state.ctx # "none"
                   THEN [ctx EXCEPT ![edit_saved_state.ctx].history_len = g1.history_len,
                                    ![edit_saved_state.ctx].history = g1.history]
                   ELSE ctx
             sv == IF on THEN [edit_saved_state EXCEPT !.active = 0, !.ctx = "none"]
                   ELSE edit_saved_state
         IN  /\ glob' = g2
             /\ ctx' = cx
             /\ edit_saved_state' = sv
             /\ heap' = Release(heap, Refs(g2, sv, cx, read_locals))
             /\ phase' = [phase EXCEPT ![c] = "idle"]
             /\ ev' = Call("stop", c)
             /\ UNCHANGED <<st, ret, errno, inq, read_locals, snap, char_signed, fs,
                            term, ub>>

\* linenoise_read(ctx, Prompt) of context c up to the first feed of
\* blocking_edit: the swap of the file-scope variables, then edit_start on
\* a state struct and a buffer that are fresh automatic objects (fill, idx
\* and cols: what they happen to hold).  blocking_edit drops the value
\* edit_start returns.
ReadStart(c, RawOk) ==
    /\ ~ub /\ NoRead /\ phase[c] = "idle"
    /\ ctx[c].history # 0 \/ HasFreeId(heap)
    /\ ctx[c].history_len <= MaxHistLen
    /\ \E rawok \in RawOk, fill \in {0, 35}, idx \in {0, 1} :
         LET loc == [saved_maskmode |-> glob.maskmode, saved_mlmode |-> glob.mlmode,
                     saved_completion |-> glob.completionCallback,
                     saved_hints |-> glob.hintsCallback,
                     saved_freehints |-> glob.freeHintsCallback,
                     saved_history_len |-> glob.history_len,
                     saved_history_max_len |-> glob.history_max_len,
                     saved_history |-> glob.history]
             g1  == [glob EXCEPT !.maskmode = ctx[c].maskmode, !.mlmode = ctx[c].mlmode,
                                 !.completionCallback = ctx[c].completionCallback,
                                 !.hintsCallback = ctx[c].hintsCallback,
                                 !.freeHintsCallback = ctx[c].freeHintsCallback,
                                 !.history_len = ctx[c].history_len,
                                 !.history_max_len = ctx[c].history_max_len,
                                 !.history = ctx[c].history]
             l0  == [StateInit(fill) EXCEPT !.history_index = idx, !.completion_idx = idx,
                                            !.cols = idx * DefaultCols]
         IN  \E w \in {edit_start([World(g1, c, inq[c]) EXCEPT !.l = l0], BufLen, rawok, TRUE)} :
             \E g2 \in {GlobOf(g1, w)} :
             /\ read_locals' = loc
             /\ glob' = g2
             /\ st' = [st EXCEPT ![c] = w.l]
             /\ heap' = Release(w.heap, Refs(g2, edit_saved_state, ctx, loc))
             /\ phase' = [phase EXCEPT ![c] = "reading"]
             /\ ret' = [ret EXCEPT ![c] = RetNone]
             /\ inq' = [inq EXCEPT ![c] = w.inq]
             /\ errno' = w.errno
             /\ ub' = w.ub
             /\ ev' = Call("read_start", c)
             /\ snap' = Snap("read", c)
             /\ term' = [term EXCEPT !.scr[c] = PutAll(BlankScreen, w.out, term.cols)]
             /\ UNCHANGED <<edit_saved_state, ctx, char_signed, fs>>

\* The rest of linenoise_read once a feed returned a result: edit_stop, the
\* copy of the history back into the context, the restore, the return.
ReadReturn(c, Tc) ==
    /\ ~ub /\ phase[c] = "reading" /\ ret[c].kind \in {"line", "null"}
    /\ \E ok \in Tc :
         LET g1 == [glob EXCEPT !.rawmode = edit_stop(World(glob, c, inq[c]), ok).rawmode]
             cx == [ctx EXCEPT ![c].history_len = g1.history_len,
                               ![c].history = g1.history]
             g2 == [g1 EXCEPT !.maskmode = read_locals.saved_maskmode,
                              !.mlmode = read_locals.saved_mlmode,
                              !.completionCallback = read_locals.saved_completion,
                              !.hintsCallback = read_locals.saved_hints,
                              !.freeHintsCallback = read_locals.saved_freehints,
                              !.history_len = read_locals.saved_history_len,
                              !.history_max_len = read_locals.saved_history_max_len,
                              !.history = read_locals.saved_history]
         IN  /\ glob' = g2
             /\ ctx' = cx
             /\ read_locals' = ReadLocalsInit
             /\ heap' = Release(heap, Refs(g2, edit_saved_state, cx, ReadLocalsInit))
             /\ phase' = [phase EXCEPT ![c] = "idle"]
             /\ ev' = Call("read", c)
             /\ UNCHANGED <<edit_saved_state, st, ret, errno, inq, snap, char_signed, fs,
                            term, ub>>

\* linenoise_history_add(ctx, line) of context c.
linenoise_history_add(c, line) ==
    /\ ~ub /\ NoRead
    /\ ctx[c].history # 0 \/ HasFreeId(heap)
    /\ ctx[c].history_len < MaxHistLen \/ ctx[c].history_len = ctx[c].history_max_len
    /\ \E r \in {HistoryAddBody(heap, ctx[c].history, ctx[c].history_len,
                                 ctx[c].history_max_len, line)} :
       \E cx \in {[ctx EXCEPT ![c].history = r.history, ![c].history_len = r.history_len]} :
           /\ ctx' = cx
           /\ heap' = Release(r.heap, Refs(glob, edit_saved_state, cx, read_locals))
           /\ ub' = r.ub
           /\ ev' = [Call("history_add", c) EXCEPT !.input = line, !.rc = r.rc]
           /\ snap' = Snap("history_add", c)
           /\ UNCHANGED <<glob, edit_saved_state, st, phase, ret, errno, inq,
                          read_locals, char_signed, fs, term>>

\* free(ctx->history[j]) for j in [0, n): whether every one is defined.
FreesOk(h, p, n) ==
    \A j \in 0..(n - 1) : SlotOk(h, p, j) /\ SlotGet(h, p, j) # Dangling

\* SetMaxLenBody copying the oldest entries where the code copies the most
\* recent ones.
SetMaxLenBody_KeepOldest(h, cx, len) ==
    LET old    == cx.history
        drop   == IF len < cx.history_len THEN cx.history_len - len ELSE 0
        tocopy == cx.history_len - drop
        new    == NewId(h)
        h1     == AllocArr(h, len)
        h2     == [h1 EXCEPT ![new].slots = [k \in 1..tocopy |-> SlotGet(h, old, k - 1)],
                             ![old].st = "freed"]
    IN  IF h[old].st # "live" \/ ~FreesOk(h, old, drop)
           \/ (tocopy > 0 /\ ~SlotOk(h, old, cx.history_len - 1))
        THEN [heap |-> h, ctx |-> cx, ub |-> TRUE]
        ELSE [heap |-> h2,
              ctx  |-> [cx EXCEPT !.history = new, !.history_max_len = len,
                                  !.history_len = IF @ > len THEN len ELSE @],
              ub   |-> FALSE]

\* The body of linenoise_history_set_max_len for len >= 1 on a context with
\* a history array.
SetMaxLenBody(h, cx, len) ==
    LET old    == cx.history
        drop   == IF len < cx.history_len THEN cx.history_len - len ELSE 0
        tocopy == cx.history_len - drop
        new    == NewId(h)
        h1     == AllocArr(h, len)
        h2     == [h1 EXCEPT ![new].slots =
                      [k \in 1..tocopy |-> SlotGet(h, old, cx.history_len - tocopy + k - 1)],
                             ![old].st = "freed"]
    IN  IF h[old].st # "live" \/ ~FreesOk(h, old, drop)
           \/ (tocopy > 0 /\ ~SlotOk(h, old, cx.history_len - 1))
           \/ (tocopy > 0 /\ ~SlotOk(h, old, cx.history_len - tocopy))
        THEN [heap |-> h, ctx |-> cx, ub |-> TRUE]
        ELSE [heap |-> h2,
              ctx  |-> [cx EXCEPT !.history = new, !.history_max_len = len,
                                  !.history_len = IF @ > len THEN len ELSE @],
              ub   |-> FALSE]

\* linenoise_history_set_max_len(ctx, len) of context c.
linenoise_history_set_max_len(c, len) ==
    /\ ~ub /\ NoRead
    /\ ctx[c].history = 0 \/ HasFreeId(heap)
    /\ \E r \in {IF len < 1 THEN [heap |-> heap, ctx |-> ctx[c], ub |-> FALSE]
                  ELSE IF ctx[c].history # 0 THEN SetMaxLenBody(heap, ctx[c], len)
                  ELSE [heap |-> heap,
                        ctx  |-> [ctx[c] EXCEPT !.history_max_len = len,
                                                !.history_len = IF @ > len THEN len ELSE @],
                        ub   |-> FALSE]} :
       \E cx \in {[ctx EXCEPT ![c] = r.ctx]} :
           /\ ctx' = cx
           /\ heap' = Release(r.heap, Refs(glob, edit_saved_state, cx, read_locals))
           /\ ub' = r.ub
           /\ ev' = [Call("set_max_len", c) EXCEPT !.input = <<len>>,
                                                    !.rc = IF len < 1 THEN 0 ELSE 1]
           /\ snap' = Snap("set_max_len", c)
           /\ UNCHANGED <<glob, edit_saved_state, st, phase, ret, errno, inq,
                          read_locals, char_signed, fs, term>>

\* No file at the path of the history file.
NoFile == [exists |-> FALSE, mode |-> 0, data |-> <<>>, saved |-> <<>>]

\* The smallest element of a non-empty set of numbers.
Least(S) == CHOOSE i \in S : \A j \in S : i <= j

\* S_IRUSR|S_IWUSR: the permission bits open() gives a file it creates.
S_IRUSR_IWUSR == 384

\* fprintf(fp, "%s\n", e) for each entry e of es, in order.
FileOf(es) ==
    LET RECURSIVE Out(_)
        Out(k) == IF k > Len(es) THEN <<>> ELSE es[k] \o <<10>> \o Out(k + 1)
    IN  Out(1)

\* fgets(buf, LINENOISE_MAX_LINE, fp): how many bytes of data it takes, a
\* line with its newline, at most LINENOISE_MAX_LINE - 1 bytes.
FgetsLen(data) ==
    LET nl == {i \in 1..Len(data) : data[i] = 10}
    IN  Min(IF nl = {} THEN Len(data) ELSE Least(nl), LINENOISE_MAX_LINE - 1)

\* p = strchr(buf, '\r'); if (!p) p = strchr(buf, '\n'); if (p) *p = 0
StripEol(chunk) ==
    LET cr == {i \in 1..Len(chunk) : chunk[i] = 13}
        nl == {i \in 1..Len(chunk) : chunk[i] = 10}
    IN  IF cr # {} THEN SubSeq(chunk, 1, Least(cr) - 1)
        ELSE IF nl # {} THEN SubSeq(chunk, 1, Least(nl) - 1)
        ELSE chunk

\* The loop of linenoise_history_load over the bytes data of the file.
RECURSIVE LoadLines(_, _, _)
LoadLines(h, cx, data) ==
    IF data = <<>> THEN [heap |-> h, ctx |-> cx, ub |-> FALSE]
    ELSE LET n == FgetsLen(data)
             r == HistoryAddBody(h, cx.history, cx.history_len, cx.history_max_len,
                                 StripEol(SubSeq(data, 1, n)))
         IN  IF r.ub THEN [heap |-> r.heap, ctx |-> cx, ub |-> TRUE]
             ELSE LoadLines(r.heap,
                            [cx EXCEPT !.history = r.history, !.history_len = r.history_len],
                            SubSeq(data, n + 1, Len(data)))

\* linenoise_history_save(ctx, filename) of context c, the open succeeding.
linenoise_history_save(c) ==
    /\ ~ub /\ NoRead
    /\ fs' = [exists |-> TRUE,
              mode   |-> IF fs.exists THEN fs.mode ELSE S_IRUSR_IWUSR,
              data   |-> IF \A k \in 1..Len(HistoryOf(c)) : IsString(HistoryOf(c)[k])
                         THEN FileOf(HistoryOf(c)) ELSE <<>>,
              saved  |-> HistoryOf(c)]
    /\ ub' = ~(\A k \in 1..Len(HistoryOf(c)) : IsString(HistoryOf(c)[k]))
    /\ ev' = Call("history_save", c)
    /\ UNCHANGED <<glob, edit_saved_state, ctx, st, heap, phase, ret, errno, inq,
                   read_locals, snap, char_signed, term>>

\* linenoise_history_load(ctx, filename) of context c.
linenoise_history_load(c) ==
    /\ ~ub /\ NoRead
    /\ ctx[c].history # 0 \/ HasFreeId(heap)
    /\ ctx[c].history_len < MaxHistLen
    /\ \E r \in {IF fs.exists THEN LoadLines(heap, ctx[c], fs.data)
                  ELSE [heap |-> heap, ctx |-> ctx[c], ub |-> FALSE]} :
       \E cx \in {[ctx EXCEPT ![c] = r.ctx]} :
           /\ ctx' = cx
           /\ heap' = Release(r.heap, Refs(glob, edit_saved_state, cx, read_locals))
           /\ ub' = r.ub
           /\ ev' = [Call("history_load", c) EXCEPT !.rc = IF fs.exists THEN 0 ELSE -1]
           /\ snap' = Snap("history_load", c)
           /\ UNCHANGED <<glob, edit_saved_state, st, phase, ret, errno, inq,
                          read_locals, char_signed, fs, term>>

(***************************************************************************)
(* Inputs and initial states.                                              *)
(***************************************************************************)
\* A key: the bytes the terminal sends for it, which the read finds waiting.
Key(bytes) == [rd |-> "ok", bytes |-> bytes]
\* Nothing to read: no byte yet on a non-blocking handle, end of input, error.
ReadAgain == [rd |-> "again", bytes |-> <<>>]
ReadEof == [rd |-> "eof", bytes |-> <<>>]
ReadErr == [rd |-> "err", bytes |-> <<>>]

Key_eacute == <<195, 169>>
\* U+1F600, a wide emoji
Key_emoji == <<240, 159, 152, 128>>
\* U+4E2D, an ideograph two columns wide
Key_cjk == <<228, 184, 173>>
Key_up == <<ESC, 91, 65>>
Key_down == <<ESC, 91, 66>>
Key_right == <<ESC, 91, 67>>
Key_left == <<ESC, 91, 68>>
Key_delete == <<ESC, 91, 51, 126>>

\* The program after the contexts cx were created and configured, on a
\* build with char signed or not as signs allows, the edit buffers the
\* application will pass holding fill bytes.
\* The terminals, cols columns wide, before anything was written.
NewTerm(cols) ==
    [cols |-> cols, scr |-> [c \in Ctx |-> BlankScreen], hid |-> [c \in Ctx |-> BlankScreen]]

\* The program after the contexts cx were created and configured, the state
\* structs and buffers the application will pass being st, the terminals as
\* wide as widths allows.
InitTerm(cx, signs, states, files, widths) ==
    /\ fs \in files
    /\ term \in {NewTerm(n) : n \in widths}
    /\ glob = GlobInit
    /\ edit_saved_state = SavedInit
    /\ ctx = cx
    /\ st \in states
    /\ heap = [a \in ArrIds |-> UnusedArr]
    /\ phase = [c \in Ctx |-> "idle"]
    /\ ret = [c \in Ctx |-> RetNone]
    /\ errno = "0"
    /\ inq = [c \in Ctx |-> <<>>]
    /\ read_locals = ReadLocalsInit
    /\ ev = Call("create", "A")
    /\ snap = [c \in Ctx |-> [op |-> "create", h |-> <<>>]]
    /\ char_signed \in signs
    /\ ub = FALSE

InitStates(cx, signs, states, files) ==
    InitTerm(cx, signs, states, files, {DefaultCols})

InitFiles(cx, signs, fills, files) ==
    InitStates(cx, signs, {[c \in Ctx |-> StateInit(fill)] : fill \in fills}, files)

InitWith(cx, signs, fills) == InitFiles(cx, signs, fills, {NoFile})

(***************************************************************************)
(* Sessions of one context with a completion callback.                     *)
(***************************************************************************)
CompletionInputs ==
    {Key(<<TAB>>), Key(<<ESC>>), Key(Char_a), Key(Key_eacute), Key(<<BACKSPACE>>),
     Key(<<CTRL_D>>), Key(<<CTRL_C>>), Key(<<ENTER>>), ReadAgain, ReadEof}

InitCompletion ==
    InitWith([c \in Ctx |-> [linenoise_context_create EXCEPT !.completionCallback = 1]],
             BOOLEAN, {0, 35})

StartCompletion == linenoise_edit_start("A", TRUE)
FeedCompletion == Feed("A", CompletionInputs, {FALSE})
StopCompletion == linenoise_edit_stop("A", {TRUE})

NextCompletion == StartCompletion \/ FeedCompletion \/ StopCompletion

SpecCompletion == InitCompletion /\ [][NextCompletion]_vars

\* C1: in every state of an editing session 0 <= pos <= len <= buflen-1,
\* buflen being the capacity passed to start, and the byte at index len of
\* the buffer is the NUL terminator.
C1_EditBufferInvariant ==
    \A c \in Ctx :
        (~ub /\ phase[c] = "editing") =>
            /\ 0 <= st[c].pos
            /\ st[c].pos <= st[c].len
            /\ st[c].len <= BufLen - 1
            /\ At(st[c].buf, st[c].len) = 0

\* C6: a call of linenoise_edit_feed returns the more sentinel while editing
\* continues: a line only for Enter, NULL only for Ctrl-C, for Ctrl-D on an
\* empty buffer, or when the read failed or found the input ended; no other
\* key, pressed during completion or not, ends the session.
C6_FeedEndsOnlyOnEndKeys ==
    (~ub /\ ev.op = "feed") =>
        /\ ret[ev.c].kind \in {"more", "line", "null"}
        /\ ret[ev.c].kind = "line" => ev.input # <<>> /\ ev.input[1] = ENTER
        /\ ret[ev.c].kind = "null" =>
               \/ ev.input = <<>>
               \/ ev.input[1] = CTRL_C
               \/ ev.input[1] = CTRL_D /\ st[ev.c].len = 0

(***************************************************************************)
(* Sessions of one context with the default settings: the editing keys.   *)
(***************************************************************************)
EditInputs ==
    {Key(Char_a), Key(Char_mark), Key(Char_zwj), Key(<<CTRL_A>>), Key(<<CTRL_E>>),
     Key(Key_left), Key(<<CTRL_F>>), Key(<<BACKSPACE>>), Key(Key_delete),
     Key(<<CTRL_T>>), Key(<<ENTER>>), ReadAgain}

InitEdit == InitWith([c \in Ctx |-> linenoise_context_create], {TRUE}, {0, 35})

StartEdit == linenoise_edit_start("A", TRUE)
FeedEdit == Feed("A", EditInputs, {FALSE})
StopEdit == linenoise_edit_stop("A", {TRUE})

NextEdit == StartEdit \/ FeedEdit \/ StopEdit

SpecEdit == InitEdit /\ [][NextEdit]_vars

\* C2: after any sequence of insert, backspace, delete, move and transpose
\* keys fed to linenoise_edit_feed, pos and len lie on grapheme-cluster
\* boundaries of the buffer and buf[0..len) is well-formed UTF-8.
C2_GraphemeIntegrity ==
    \A c \in Ctx :
        (~ub /\ phase[c] = "editing") =>
            /\ st[c].pos \in GraphemeBoundaries(st[c].buf, st[c].len)
            /\ st[c].len \in GraphemeBoundaries(st[c].buf, st[c].len)
            /\ WellFormedFrom(st[c].buf, 0, st[c].len)

(***************************************************************************)
(* The same sessions with the keys that type and return a line, Ctrl-@    *)
(* (the byte 0) among them.                                                *)
(***************************************************************************)
LineInputs ==
    {Key(Char_a), Key(Char_nul), Key(<<CTRL_A>>), Key(<<BACKSPACE>>), Key(<<CTRL_K>>),
     Key(<<CTRL_U>>), Key(<<CTRL_W>>), Key(<<CTRL_L>>), Key(<<ENTER>>), ReadEof}

FeedLine == Feed("A", LineInputs, {FALSE})

NextLine == StartEdit \/ FeedLine \/ StopEdit

SpecLine == InitEdit /\ [][NextLine]_vars

\* C3: on Enter the feed returns a copy of exactly buf[0..len): the same
\* bytes, the same length, whatever keys came before.
C3_EnterReturnsBuffer ==
    (~ub /\ ev.op = "feed" /\ ret[ev.c].kind = "line") =>
        ret[ev.c].line = Slice(st[ev.c].buf, 0, st[ev.c].len)

(***************************************************************************)
(* One context whose application adds lines to the history between        *)
(* sessions; the sessions navigate the history and are cancelled.          *)
(***************************************************************************)
HistoryLines == {<<97>>, <<97, 97>>}

CancelInputs ==
    {Key(Char_a), Key(Key_up), Key(<<CTRL_P>>), Key(<<CTRL_C>>), Key(<<ENTER>>)}

InitHistory == InitWith([c \in Ctx |-> linenoise_context_create], {TRUE}, {0})

AddIdle == \E line \in HistoryLines : phase["A"] = "idle" /\ linenoise_history_add("A", line)
FeedCancel == Feed("A", CancelInputs, {FALSE})

NextCancel == AddIdle \/ StartEdit \/ FeedCancel \/ StopEdit

SpecCancel == InitHistory /\ [][NextCancel]_vars

\* The entries of the history the running session works on (the file-scope
\* history, which stop hands back to the context).
ActiveHistory == Entries(heap, glob.history, glob.history_len)

\* C4: Ctrl-C ends the session with NULL flagged as interrupted and drops the
\* active edit: the tentative tail entry made at session start is removed,
\* so the history holds the same entries as before the session started,
\* whatever was typed or navigated before.
C4_CtrlCRestoresHistory ==
    (~ub /\ ev.op = "feed" /\ ev.input # <<>> /\ ev.input[1] = CTRL_C) =>
        /\ ret[ev.c].kind = "null"
        /\ errno = "EAGAIN"
        /\ ActiveHistory = snap[ev.c].h

(***************************************************************************)
(* One context whose history may hold the empty line; the sessions end     *)
(* with Ctrl-D or Enter.                                                   *)
(***************************************************************************)
LinesWithEmpty == {<<>>, <<97>>}

CtrlDInputs ==
    {Key(Char_a), Key(Char_mark), Key(<<CTRL_B>>), Key(<<CTRL_D>>), Key(<<ENTER>>)}

AddCtrlD ==
    \E line \in LinesWithEmpty : phase["A"] = "idle" /\ linenoise_history_add("A", line)
FeedCtrlD == Feed("A", CtrlDInputs, {FALSE})

NextCtrlD == AddCtrlD \/ StartEdit \/ FeedCtrlD \/ StopEdit

SpecCtrlD == InitHistory /\ [][NextCtrlD]_vars

\* C5: Ctrl-D on an empty buffer ends the session with NULL flagged as end
\* of file and removes the tentative tail entry, so that the history keeps
\* every entry the session found (all but the oldest when it found the
\* history full); Ctrl-D on a non-empty buffer returns more and deletes the
\* grapheme at the cursor, nothing when the cursor is at the end.
C5_CtrlD ==
    [][(~ub' /\ ev'.op = "feed" /\ ev'.input = <<CTRL_D>>) =>
          LET c == ev'.c
              l == st[c]
              n == utf8NextCharLen(l.buf, l.pos, l.len)
          IN  IF l.len = 0
              THEN /\ ret'[c].kind = "null"
                   /\ errno' = "ENOENT"
                   /\ Len(ActiveHistory') = Min(Len(snap[c].h), glob.history_max_len - 1)
              ELSE /\ ret'[c].kind = "more"
                   /\ st'[c].pos = l.pos
                   /\ IF l.pos = l.len
                      THEN /\ st'[c].len = l.len
                           /\ Slice(st'[c].buf, 0, l.len) = Slice(l.buf, 0, l.len)
                      ELSE /\ st'[c].len = l.len - n
                           /\ Slice(st'[c].buf, 0, l.len - n)
                                = Slice(l.buf, 0, l.pos) \o Slice(l.buf, l.pos + n, l.len)]_vars

(***************************************************************************)
(* One context whose application reads lines with the blocking call; the   *)
(* calls that change the terminal attributes can fail.                     *)
(***************************************************************************)
ReadInputs ==
    {Key(Char_a), Key(<<ENTER>>), Key(<<CTRL_C>>), Key(<<CTRL_D>>), ReadEof, ReadErr}

ReadStartA == ReadStart("A", BOOLEAN)
FeedRead == Feed("A", ReadInputs, {FALSE})
ReadReturnA == ReadReturn("A", BOOLEAN)

NextRead == ReadStartA \/ FeedRead \/ ReadReturnA

SpecRead == InitHistory /\ [][NextRead]_vars

\* C7: the terminal is in raw mode (rawmode = 1) throughout a blocking read,
\* from its start to its return, and no longer in raw mode (rawmode = 0)
\* whenever linenoise_read has returned: with a line, on Ctrl-C, on
\* Ctrl-D or end of input, after a read error.
C7_RawModeRestored ==
    ~ub => /\ \A c \in Ctx : phase[c] = "reading" => glob.rawmode = 1
           /\ ev.op = "read" => glob.rawmode = 0

(***************************************************************************)
(* Two contexts with different settings, each with its own non-blocking    *)
(* session; the calls of the two sessions interleave.                      *)
(***************************************************************************)
TwoInputs == {Key(<<ENTER>>)}

InitTwo ==
    InitWith([c \in Ctx |-> IF c = "A"
                            THEN [linenoise_context_create EXCEPT !.completionCallback = 1]
                            ELSE [linenoise_context_create EXCEPT !.maskmode = 1]],
             {TRUE}, {0})

AddTwo ==
    \E c \in Ctx : (\A d \in Ctx : phase[d] = "idle") /\ linenoise_history_add(c, Char_a)
StartTwo == \E c \in Ctx : linenoise_edit_start(c, TRUE)
FeedTwo == \E c \in Ctx : Feed(c, TwoInputs, {FALSE})
StopTwo == \E c \in Ctx : linenoise_edit_stop(c, {TRUE})

NextTwo == AddTwo \/ StartTwo \/ FeedTwo \/ StopTwo

SpecTwo == InitTwo /\ [][NextTwo]_vars

\* C8: with the calls of the sessions of two contexts interleaved in any
\* order, every feed on a context's state works with that context's mask
\* and multi-line settings and callbacks, and once both sessions are stopped
\* each context's history is what its own session alone would have left: the
\* entries it had at its start, no session here adding or cancelling.
C8_ContextIsolation ==
    ~ub =>
        /\ ev.op = "feed" =>
               /\ ev.used.maskmode = ctx[ev.c].maskmode
               /\ ev.used.mlmode = ctx[ev.c].mlmode
               /\ ev.used.completionCallback = ctx[ev.c].completionCallback
               /\ ev.used.hintsCallback = ctx[ev.c].hintsCallback
        /\ (\A d \in Ctx : phase[d] = "idle") =>
               \A c \in Ctx : snap[c].op = "start" => HistoryOf(c) = snap[c].h

(***************************************************************************)
(* One context whose application adds lines between sessions; the sessions *)
(* navigate the history, edit the recalled lines and end with Enter.       *)
(***************************************************************************)
HistoryInputs ==
    {Key(Char_a), Key(Key_up), Key(Key_down), Key(<<BACKSPACE>>), Key(<<ENTER>>)}

FeedHistory == Feed("A", HistoryInputs, {FALSE})

NextHistory == AddIdle \/ StartEdit \/ FeedHistory \/ StopEdit

SpecHistory == InitHistory /\ [][NextHistory]_vars

\* C9: no two consecutive entries of a context's history are byte-equal,
\* after any sequence of history adds and of editing sessions that navigate
\* the history and edit the recalled lines.
C9_NoConsecutiveDuplicates ==
    \A c \in Ctx : (~ub /\ phase[c] = "idle") =>
        \A i \in 1..(Len(HistoryOf(c)) - 1) : HistoryOf(c)[i] # HistoryOf(c)[i + 1]

(***************************************************************************)
(* One context whose application adds lines and changes the maximum        *)
(* history length at any time, also while a session is running.            *)
(***************************************************************************)
MidInputs == {Key(<<CTRL_C>>), Key(<<ENTER>>)}

AddAny == \E line \in HistoryLines : linenoise_history_add("A", line)
SetMaxLenAny == \E len \in 0..MaxLenArg : linenoise_history_set_max_len("A", len)
FeedMid == Feed("A", MidInputs, {FALSE})

NextMid == AddAny \/ SetMaxLenAny \/ StartEdit \/ FeedMid \/ StopEdit

SpecMid == InitHistory /\ [][NextMid]_vars

\* C10: the history is a bounded first-in first-out list: after every
\* operation 0 <= history_len <= history_max_len, and adding a line that
\* differs from the tail to a full history drops exactly the oldest entry,
\* keeps the others in their order and puts the new line at the tail.
C10_BoundedFifo ==
    \A c \in Ctx : ~ub =>
        /\ 0 <= ctx[c].history_len
        /\ ctx[c].history_len <= ctx[c].history_max_len
        /\ (/\ ev.op = "history_add" /\ ev.c = c
            /\ Len(snap[c].h) = ctx[c].history_max_len
            /\ snap[c].h[Len(snap[c].h)] # ev.input)
              => HistoryOf(c) = Tail(snap[c].h) \o <<ev.input>>

(***************************************************************************)
(* Two contexts on which the application only calls the history functions.*)
(***************************************************************************)
AddApi ==
    \E c \in Ctx, line \in LinesWithEmpty : linenoise_history_add(c, line)
SetMaxLenApi == \E c \in Ctx, len \in 0..MaxLenArg : linenoise_history_set_max_len(c, len)

NextApi == AddApi \/ SetMaxLenApi

SpecApi == InitHistory /\ [][NextApi]_vars

\* C11: a history add that directly follows a history add of the same line
\* on the same context returns 0 and leaves the history as it was, and no
\* history add decreases history_len (at capacity it stays at
\* history_max_len).
C11_HistoryDedup ==
    [][(~ub' /\ ev'.op = "history_add") =>
          /\ ctx'[ev'.c].history_len >= ctx[ev'.c].history_len
          /\ (ctx[ev'.c].history_len = ctx[ev'.c].history_max_len
                 => ctx'[ev'.c].history_len = ctx[ev'.c].history_max_len)
          /\ (ev.op = "history_add" /\ ev.c = ev'.c /\ ev.input = ev'.input)
                 => /\ ev'.rc = 0
                    /\ Entries(heap', ctx'[ev'.c].history, ctx'[ev'.c].history_len)
                          = HistoryOf(ev'.c)]_vars

\* C11 happens: an add of "a" to a history whose tail is "a" was refused and
\* the history still holds the one copy.
C11_Witness ==
    /\ ev.op = "history_add" /\ ev.rc = 0 /\ ev.input = Char_a /\ ~ub
    /\ snap[ev.c].h = HistoryOf(ev.c)
    /\ HistoryOf(ev.c) = <<Char_a>>

\* C12: linenoise_history_set_max_len(n) with n < 1 returns 0 and changes
\* nothing; with n >= 1 it sets the capacity to n and keeps the n most
\* recent entries in their order when n is smaller than the length, all the
\* entries in their order otherwise.
C12_SetMaxLen ==
    [][(~ub' /\ ev'.op = "set_max_len") =>
          LET c   == ev'.c
              n   == ev'.input[1]
              old == HistoryOf(c)
              new == Entries(heap', ctx'[c].history, ctx'[c].history_len)
          IN  IF n < 1
              THEN ev'.rc = 0 /\ ctx'[c] = ctx[c] /\ new = old
              ELSE /\ ev'.rc = 1
                   /\ ctx'[c].history_max_len = n
                   /\ new = IF n < Len(old) THEN SubSeq(old, Len(old) - n + 1, Len(old))
                            ELSE old]_vars

\* C12 happens: a history of two entries was cut to its most recent one.
C12_Witness ==
    /\ ev.op = "set_max_len" /\ ev.input = <<1>> /\ ev.rc = 1 /\ ~ub
    /\ Len(snap[ev.c].h) = 2
    /\ HistoryOf(ev.c) = <<snap[ev.c].h[2]>>
    /\ ctx[ev.c].history_max_len = 1

(***************************************************************************)
(* Context A whose application adds lines and saves the history to a file  *)
(* that may exist already; context B, fresh, loads the file.               *)
(***************************************************************************)
\* The longest line linenoise_read can return.
LongLine == [k \in 1..(LINENOISE_MAX_LINE - 1) |-> 97]

FileLines == {<<>>, Char_a, LongLine}

\* The path before the first save: no file, or a file with mode 0644.
PriorFiles == {NoFile, [exists |-> TRUE, mode |-> 420, data |-> <<>>, saved |-> <<>>]}

InitFile == InitFiles([c \in Ctx |-> linenoise_context_create], {TRUE}, {0}, PriorFiles)

AddFile == \E line \in FileLines : linenoise_history_add("A", line)
SaveFile == linenoise_history_save("A")
LoadFile == linenoise_history_load("B")

NextFile == AddFile \/ SaveFile \/ LoadFile

SpecFile == InitFile /\ [][NextFile]_vars

\* No entry of es holds a line feed or a carriage return.
NoEol(es) == \A k \in 1..Len(es) : \A i \in 1..Len(es[k]) : es[k][i] \notin {10, 13}

\* C13: once a history whose entries hold no line feed and no carriage
\* return is saved, loading the file into a fresh context of the same
\* capacity gives that context the same entries in the same order.
C13_SaveLoadRoundTrip ==
    (/\ ~ub /\ ev.op = "history_load" /\ ev.rc = 0
     /\ snap[ev.c].h = <<>> /\ NoEol(fs.saved)
     /\ Len(fs.saved) <= ctx[ev.c].history_max_len)
        => HistoryOf(ev.c) = fs.saved

\* C14: after a history save that succeeded the file has the permission
\* bits 0600, whether the path was absent or a file with another mode
\* before.
C14_SavedFileMode ==
    (~ub /\ ev.op = "history_save") => fs.exists /\ fs.mode = S_IRUSR_IWUSR

(***************************************************************************)
(* Completion sessions: context A edits with a completion callback, the    *)
(* user presses Tab, Escape, a letter, a two-byte character, the left      *)
(* arrow and Enter.                                                        *)
(***************************************************************************)
TabInputs ==
    {Key(<<TAB>>), Key(<<ESC>>), Key(Char_a), Key(Key_eacute), Key(Key_left),
     Key(<<ENTER>>)}

InitTab ==
    InitWith([c \in Ctx |-> [linenoise_context_create EXCEPT !.completionCallback = 1]],
             BOOLEAN, {0})

StartTab == linenoise_edit_start("A", TRUE)
FeedTab == Feed("A", TabInputs, {FALSE})
StopTab == linenoise_edit_stop("A", {TRUE})

NextTab == StartTab \/ FeedTab \/ StopTab

SpecTab == InitTab /\ [][NextTab]_vars

\* C15: with a completion callback that offers N >= 1 candidates for the
\* buffer, the first Tab shows candidate 0 and each further Tab the next
\* one; after candidate N-1 a Tab rings the bell and shows the original
\* buffer, and the Tab after that shows candidate 0 again (completion_idx
\* advances modulo N+1 and starts at 0).
C15_CompletionCycle ==
    [][LET c  == ev'.c
           l  == st[c]
           lc == Completions(strdup(l.buf))
           k  == IF l.in_completion = 0 THEN 0 ELSE (l.completion_idx + 1) % (Len(lc) + 1)
       IN  (/\ ~ub' /\ ev'.op = "feed" /\ ev'.input = <<TAB>>
            /\ ev'.used.completionCallback # 0 /\ Len(lc) >= 1)
           => /\ ret'[c].kind = "more"
              /\ st'[c].in_completion = 1
              /\ st'[c].completion_idx = k
              /\ IF k < Len(lc)
                 THEN ev'.rendered = <<lc[k + 1]>> /\ ev'.bell = 0
                 ELSE ev'.rendered = <<Slice(l.buf, 0, l.len)>> /\ ev'.bell = 1]_vars

\* C15 happens: after the two candidates for "a", a Tab rang the bell and
\* brought the original buffer back.
C15_Witness ==
    /\ ev.op = "feed" /\ ev.input = <<TAB>> /\ ev.bell = 1 /\ ~ub
    /\ st[ev.c].in_completion = 1 /\ st[ev.c].completion_idx = 2
    /\ ev.rendered = <<Char_a>>

\* The candidate on display in c's session, <<>> when none is.
Displayed(c) ==
    LET lc == Completions(strdup(st[c].buf))
    IN  IF st[c].in_completion # 0 /\ glob.completionCallback # 0
           /\ st[c].completion_idx < Len(lc)
        THEN <<lc[st[c].completion_idx + 1]>>
        ELSE <<>>

\* C16: while a candidate is on display, a key other than Tab and Escape
\* puts the whole candidate into the edit buffer with pos = len = its
\* length, leaves completion mode, and is then processed as in normal
\* editing: the session ends up where a feed of that key leaves a session
\* that holds the candidate and is not completing.
C16_KeyAcceptsCandidate ==
    [][LET c    == ev'.c
           cand == Displayed(c)[1]
           acc  == [st[c] EXCEPT !.buf = snprintf(@, st[c].buflen, cand),
                                 !.len = Len(cand), !.pos = Len(cand),
                                 !.in_completion = 0]
           exp  == linenoise_edit_feed([World(glob, c, ev'.input) EXCEPT !.l = acc],
                                       "ok", 35, FALSE, char_signed)
       IN  (/\ ev'.op = "feed" /\ ev'.input # <<>> /\ Displayed(c) # <<>>
            /\ ev'.input # <<TAB>> /\ ev'.input # <<ESC>> /\ inq[c] = <<>>)
           => /\ ~ub'
              /\ Len(cand) < st[c].buflen
              /\ st'[c] = [exp.l EXCEPT !.completion_idx = st'[c].completion_idx]
              /\ ret'[c] = exp.ret]_vars

\* C17: moving through the candidates leaves the edit buffer alone: a Tab
\* that starts or continues the cycle, and an Escape that ends it, change
\* neither the bytes of buf nor len nor pos, so these stay what they were
\* before the first Tab.
C17_NavigationKeepsBuffer ==
    [][LET c  == ev'.c
           lc == Completions(strdup(st[c].buf))
       IN  (/\ ~ub' /\ ev'.op = "feed" /\ ev'.used.completionCallback # 0
            /\ Len(lc) >= 1
            /\ \/ ev'.input = <<TAB>>
               \/ ev'.input = <<ESC>> /\ st[c].in_completion # 0)
           => /\ st'[c].buf = st[c].buf
              /\ st'[c].len = st[c].len
              /\ st'[c].pos = st[c].pos
              /\ ret'[c].kind = "more"]_vars

\* C17 happens: an Escape ended the cycle over the candidates for "a" and
\* the line "a" is on display again.
C17_Witness ==
    /\ ev.op = "feed" /\ ev.input = <<ESC>> /\ ev.used.completionCallback # 0 /\ ~ub
    /\ ev.rendered = <<Char_a>> /\ st[ev.c].in_completion = 0
    /\ st[ev.c].len = 1 /\ st[ev.c].pos = 1 /\ st[ev.c].buf[1] = 97

\* C18: a Tab pressed with a completion callback that offers no candidate
\* for the buffer rings the bell, leaves the session out of completion
\* mode and changes neither the bytes of buf nor len nor pos.
C18_TabWithoutCandidates ==
    [][LET c == ev'.c
       IN  (/\ ev'.op = "feed" /\ ev'.input = <<TAB>>
            /\ ev'.used.completionCallback # 0
            /\ Len(Completions(strdup(st[c].buf))) = 0)
           => /\ ~ub'
              /\ ev'.bell >= 1
              /\ st'[c].in_completion = 0
              /\ st'[c].buf = st[c].buf
              /\ st'[c].len = st[c].len
              /\ st'[c].pos = st[c].pos]_vars

(***************************************************************************)
(* Escape sequences: context A edits, the user types a letter, a lone      *)
(* Escape, the left arrow, Delete, and sequences the library has no        *)
(* meaning for; each key arrives as one burst of bytes.                    *)
(***************************************************************************)
Key_ctrl_right == <<ESC, 91, 49, 59, 53, 67>>
Key_page_up == <<ESC, 91, 53, 126>>
Key_digit_other == <<ESC, 91, 53, 67>>

Unrecognised == {Key_ctrl_right, Key_page_up, Key_digit_other}

EscInputs ==
    {Key(Char_a), Key(<<ESC>>), Key(Key_left), Key(Key_delete), Key(<<ENTER>>)}
        \cup {Key(k) : k \in Unrecognised}

InitEsc == InitWith([c \in Ctx |-> linenoise_context_create], BOOLEAN, {0})

StartEsc == linenoise_edit_start("A", TRUE)
FeedEsc == Feed("A", EscInputs, {FALSE})
StopEsc == linenoise_edit_stop("A", {TRUE})

NextEsc == StartEsc \/ FeedEsc \/ StopEsc

SpecEsc == InitEsc /\ [][NextEsc]_vars

\* C19: a lone Escape, no byte following it within the timeout, is taken
\* as a key of its own: the feed returns more without waiting any longer,
\* the edit state and the history are what they were, and nothing is held
\* back, so the bytes that arrive later are decoded as new keys.
C19_LoneEscape ==
    [][LET c == ev'.c
       IN  (ev'.op = "feed" /\ ev'.input = <<ESC>>)
           => /\ ~ub'
              /\ ret'[c].kind = "more"
              /\ st'[c] = [st[c] EXCEPT !.in_completion = st'[c].in_completion]
              /\ inq'[c] = <<>>
              /\ glob' = glob
              /\ Entries(heap', glob'.history, glob'.history_len)
                    = Entries(heap, glob.history, glob.history_len)]_vars

\* C19 happens: a lone Escape was fed to a session whose line is "a" and
\* the session goes on.
C19_Witness ==
    /\ ev.op = "feed" /\ ev.input = <<ESC>> /\ ~ub
    /\ phase[ev.c] = "editing" /\ ret[ev.c].kind = "more"
    /\ st[ev.c].len = 1 /\ st[ev.c].buf[1] = 97 /\ inq[ev.c] = <<>>

\* C20: an escape sequence the library has no meaning for is taken as one
\* key and dropped: buf, len and pos are what they were and no byte of the
\* sequence is left on the input to be inserted as text later.
C20_UnrecognisedEscape ==
    [][LET c == ev'.c
       IN  (ev'.op = "feed" /\ ev'.input \in Unrecognised)
           => /\ ~ub'
              /\ ret'[c].kind = "more"
              /\ st'[c].buf = st[c].buf
              /\ st'[c].len = st[c].len
              /\ st'[c].pos = st[c].pos
              /\ inq'[c] = <<>>]_vars

(***************************************************************************)
(* Typing clusters: context A edits in a buffer of WideBufLen bytes, the   *)
(* user types a letter, a two-byte letter, a combining mark and a zero     *)
(* width joiner, moves the cursor and deletes.                             *)
(***************************************************************************)
GraphemeInputs ==
    {Key(Char_a), Key(Key_eacute), Key(Char_mark), Key(Char_zwj), Key(Key_emoji),
     Key(<<BACKSPACE>>), Key(Key_left), Key(Key_right), Key(<<CTRL_A>>)}

\* A state struct whose buffer, not yet given to a start, has n bytes.
WideState(n) == [StateInit(0) EXCEPT !.buf = [k \in 1..n |-> 0]]

InitGrapheme ==
    InitStates([c \in Ctx |-> linenoise_context_create], {FALSE},
               {[c \in Ctx |-> WideState(WideBufLen)]}, {NoFile})

StartGrapheme == linenoise_edit_start("A", TRUE)
FeedGrapheme == Feed("A", GraphemeInputs, {FALSE})

NextGrapheme == StartGrapheme \/ FeedGrapheme

SpecGrapheme == InitGrapheme /\ [][NextGrapheme]_vars

\* The session of context A after the keys ks were fed to it one by one.
RECURSIVE Typed(_, _)
Typed(w, ks) ==
    IF ks = <<>> THEN w
    ELSE Typed(linenoise_edit_feed([w EXCEPT !.inq = Head(ks)], "ok", 35, FALSE,
                                   char_signed),
               Tail(ks))

\* Grapheme clusters as the keys that type them, and their bytes.
Clusters == {<<Char_a>>, <<Key_eacute>>, <<Char_a, Char_mark>>}

RECURSIVE BytesOf(_)
BytesOf(ks) == IF ks = <<>> THEN <<>> ELSE Head(ks) \o BytesOf(Tail(ks))

\* Inserting the cluster ks at the cursor of A's session and pressing
\* Backspace gives back the line and the cursor of before the insert.
BackspaceUndoes(ks) ==
    \E w0 \in {World(glob, "A", <<>>)} :
    \E w1 \in {Typed(w0, ks)} :
    \E w2 \in {Typed(w1, << <<BACKSPACE>> >>)} :
        /\ w1.l.len = w0.l.len + Len(BytesOf(ks))
        /\ w2.l.len = w0.l.len
        /\ w2.l.pos = w0.l.pos
        /\ Slice(w2.l.buf, 0, w2.l.len + 1) = Slice(w0.l.buf, 0, w0.l.len + 1)

\* The codepoint before the cursor of A's session is a zero width joiner.
AfterZWJ ==
    st["A"].pos > 0 /\ isZWJ(utf8DecodePrev(st["A"].buf, st["A"].pos).cp)

\* C21 as stated: for every buffer content and cursor position, a cluster
\* of k bytes that is inserted and a Backspace after it leave len, pos and
\* the bytes of the line what they were before the insert.
C21_BackspaceInverse ==
    (phase["A"] = "editing" /\ ~ub)
        => \A ks \in Clusters :
              st["A"].len + Len(BytesOf(ks)) <= st["A"].buflen => BackspaceUndoes(ks)

\* C21 amended: the same, for a cursor that does not stand right after a
\* zero width joiner.
C21_BackspaceInverseAmended ==
    (phase["A"] = "editing" /\ ~ub /\ ~AfterZWJ)
        => \A ks \in Clusters :
              st["A"].len + Len(BytesOf(ks)) <= st["A"].buflen => BackspaceUndoes(ks)

\* C21 happens: the cursor stands between two clusters of the line, not
\* after a joiner, and a cluster of three bytes still fits.
C21_Witness ==
    /\ phase["A"] = "editing" /\ ~ub /\ ~AfterZWJ
    /\ st["A"].pos > 0 /\ st["A"].pos < st["A"].len
    /\ st["A"].len + 3 <= st["A"].buflen
    /\ BackspaceUndoes(<<Char_a, Char_mark>>)

(***************************************************************************)
(* Cursor movement (linenoise_edit_move_left, linenoise_edit_move_right).  *)
(***************************************************************************)
\* The grapheme boundary of b[0 .. len) before pos and the one after it; pos
\* itself at the edges.
PrevBoundary(b, len, pos) ==
    IF pos <= 0 THEN pos
    ELSE CHOOSE i \in GraphemeBoundaries(b, len) :
            i < pos /\ \A j \in GraphemeBoundaries(b, len) : j < pos => j <= i

NextBoundary(b, len, pos) ==
    IF pos >= len THEN pos
    ELSE CHOOSE i \in GraphemeBoundaries(b, len) :
            i > pos /\ \A j \in GraphemeBoundaries(b, len) : j > pos => i <= j

\* The column the cursor of c's terminal stands in.
CursorColumn(c) == term.scr[c].c

\* The step is a feed of the key ks to A's session.
Pressed(ks) == ev'.op = "feed" /\ ev'.c = "A" /\ ev'.input = ks /\ ~ub'

\* The step moved the cursor of A's session from l.pos to the boundary to
\* and nothing else: the line is what it was and the cursor of the terminal
\* moved by the width of the cluster between the two.
MovedTo(to) ==
    LET l  == st["A"]
        lo == Min(l.pos, to)
        hi == Max(l.pos, to)
        wd == IF lo = hi THEN 0 ELSE utf8SingleCharWidth(l.buf, lo, hi - lo)
    IN  /\ st'["A"].pos = to
        /\ st'["A"].buf = l.buf
        /\ st'["A"].len = l.len
        /\ CursorColumn("A")' = CursorColumn("A") + (IF to < l.pos THEN 0 - wd ELSE wd)

\* C22: a Left (Right) key moves pos back (forward) over exactly the one
\* grapheme cluster before (after) the cursor, does nothing at the edge of
\* the line, never changes the bytes of the buffer or len, and moves the
\* cursor of the terminal by the display width of that cluster.
C22_CursorMovement ==
    [][/\ Pressed(Key_left)
          => MovedTo(PrevBoundary(st["A"].buf, st["A"].len, st["A"].pos))
       /\ Pressed(Key_right)
          => MovedTo(NextBoundary(st["A"].buf, st["A"].len, st["A"].pos))]_vars

(***************************************************************************)
(* The single-line renderer on a terminal NarrowCols wide: A's session     *)
(* types clusters one and two columns wide and moves the cursor.           *)
(***************************************************************************)
ScrollInputs ==
    {Key(Char_a), Key(Key_cjk), Key(Char_mark), Key(<<BACKSPACE>>), Key(Key_left),
     Key(<<CTRL_A>>), Key(<<CTRL_E>>)}

InitScroll ==
    InitTerm([c \in Ctx |-> linenoise_context_create], {FALSE},
             {[c \in Ctx |-> WideState(WideBufLen)]}, {NoFile}, {NarrowCols})

StartScroll == linenoise_edit_start("A", TRUE)
FeedScroll == Feed("A", ScrollInputs, {FALSE})

NextScroll == StartScroll \/ FeedScroll

SpecScroll == InitScroll /\ [][NextScroll]_vars

\* The last call was a feed to A's session that drew a frame of the
\* single-line renderer: "\r", the prompt, the visible slice, ESC [ 0 K,
\* "\r" and ESC [ n C.
DrewFrame ==
    /\ ev.op = "feed" /\ ev.c = "A" /\ ~ub
    /\ Len(ev.out) = 6
    /\ ev.out[1] = TokCr /\ ev.out[2] = TokText(Prompt) /\ ev.out[3].op = "text"
    /\ ev.out[4] = TokEl /\ ev.out[5] = TokCr /\ ev.out[6].op = "cuf"

\* The slice of the line the frame shows and the column it leaves the
\* cursor in.
FrameSlice == ev.out[3].s
FrameColumn == ev.out[6].n

PromptWidth == utf8StrWidth(Prompt, Len(Prompt))

\* The frame shows buf[off .. off + Len(FrameSlice)) of A's line, the cursor
\* is inside it and the cursor column is the width of the prompt and of the
\* slice up to the cursor.
FrameShows(off) ==
    LET l == st["A"]
    IN  /\ off + Len(FrameSlice) <= l.len
        /\ Slice(l.buf, off, off + Len(FrameSlice)) = FrameSlice
        /\ off <= l.pos /\ l.pos <= off + Len(FrameSlice)
        /\ FrameColumn = PromptWidth + utf8StrWidth(Slice(l.buf, off, l.pos), l.pos - off)

\* The display-width invariant of a frame.
FrameFits ==
    /\ PromptWidth + utf8StrWidth(FrameSlice, Len(FrameSlice)) <= term.cols
    /\ \E off \in 0..st["A"].len : FrameShows(off)

\* The line does not fit the terminal beside the prompt.
LineTooWide == PromptWidth + utf8StrWidth(st["A"].buf, st["A"].len) > term.cols

\* C23: every frame of the single-line renderer shows a slice of the line
\* that fits the terminal beside the prompt, with the cursor inside the
\* slice and in the column that is the width of the prompt and of the slice
\* up to the cursor; when the line is wider than the terminal and the cursor
\* is at its end the cursor is in the last column, and Ctrl-A shows the
\* prompt and the start of the line again.
C23_DisplayWidth ==
    DrewFrame =>
        /\ FrameFits
        /\ (LineTooWide /\ st["A"].pos = st["A"].len) => FrameColumn = term.cols - 1
        /\ (LineTooWide /\ ev.input = <<CTRL_A>>)
              => FrameShows(0) /\ FrameSlice # <<>> /\ FrameColumn = PromptWidth

(***************************************************************************)
(* Mask mode: A's context has mask mode on (linenoise_set_mask_mode), its  *)
(* terminal is DefaultCols wide.                                           *)
(***************************************************************************)
MaskInputs ==
    {Key(Char_a), Key(Key_cjk), Key(Char_mark), Key(<<BACKSPACE>>), Key(Key_left)}

InitMask ==
    InitStates([c \in Ctx |-> [linenoise_context_create EXCEPT !.maskmode = 1]], {FALSE},
               {[c \in Ctx |-> WideState(WideBufLen)]}, {NoFile})

StartMask == linenoise_edit_start("A", TRUE)
FeedMask == Feed("A", MaskInputs, {FALSE})

NextMask == StartMask \/ FeedMask

SpecMask == InitMask /\ [][NextMask]_vars

\* The '*' glyphs on the row of c's terminal the prompt is on.
StarsShown(c) ==
    Cardinality({k \in 1..Len(term.scr[c].rows[1]) : term.scr[c].rows[1][k] = <<42>>})

\* The grapheme clusters of b[0 .. len) and those before pos.
ClusterCount(b, len) == Cardinality(GraphemeBoundaries(b, len)) - 1
ClustersBefore(b, len, pos) == Cardinality({i \in GraphemeBoundaries(b, len) : i < pos})

\* What refresh_line writes in A's session for a line of n letters 'a' with
\* the cursor after the first k of them.
FrameOfLetters(n, k) ==
    Drawn(refresh_line([World(glob, "A", <<>>)
                          EXCEPT !.l.buf = [i \in 1..Len(@) |-> IF i <= n THEN 97 ELSE 0],
                                 !.l.len = n, !.l.pos = k])).out

\* C24: while mask mode is on, after every key (re-render or append fast
\* path) the terminal shows as many '*' as the line has grapheme clusters,
\* and a frame depends on the number of clusters and on the cluster index
\* of the cursor only: it is the frame of any other line with the same two
\* numbers, here the line of that many letters 'a'.
C24_MaskMode ==
    (ev.op = "feed" /\ ev.c = "A" /\ ~ub /\ phase["A"] = "editing")
        => /\ StarsShown("A") = ClusterCount(st["A"].buf, st["A"].len)
           /\ DrewFrame
                 => ev.out = FrameOfLetters(ClusterCount(st["A"].buf, st["A"].len),
                                            ClustersBefore(st["A"].buf, st["A"].len,
                                                           st["A"].pos))

(***************************************************************************)
(* Hiding and showing the line.  One session runs at a time, on a terminal *)
(* NarrowCols wide: A's context is in mask mode and single-line, B's is    *)
(* multi-line and has a completion callback.  The application hides the    *)
(* line, prints and shows the line again as the API guide has it: no other *)
(* call comes between a hide and its show.                                 *)
(***************************************************************************)
HideInputs == {Key(Char_a), Key(Char_mark), Key(<<TAB>>)}

InitHide ==
    InitTerm([c \in Ctx |-> IF c = "A"
                            THEN [linenoise_context_create EXCEPT !.maskmode = 1]
                            ELSE [linenoise_context_create EXCEPT !.mlmode = 1,
                                                                  !.completionCallback = 1]],
             {FALSE}, {[c \in Ctx |-> WideState(WideBufLen)]}, {NoFile}, {NarrowCols})

\* The last call hid a line.
Hidden == ev.op = "hide"

StartHide ==
    \E c \in Ctx : (\A d \in Ctx : phase[d] = "idle") /\ linenoise_edit_start(c, TRUE)
FeedHide == \E c \in Ctx : ~Hidden /\ Feed(c, HideInputs, {FALSE})
HideHide == \E c \in Ctx : ~Hidden /\ Hide(c)
ShowHide == \E c \in Ctx : Hidden /\ Show(c)

NextHide == StartHide \/ FeedHide \/ HideHide \/ ShowHide

SpecHide == InitHide /\ [][NextHide]_vars

\* The Edit State of a state struct, and what a terminal shows: the cells
\* of its rows and where its cursor is.
EditStateOf(l) == <<l.buf, l.len, l.pos, l.history_index, l.in_completion, l.completion_idx>>
ShownOn(scr) == <<scr.rows, scr.r, scr.c, scr.lost>>

\* The step is the call op on c's state.
Called(op, c) == ev'.op = op /\ ev'.c = c /\ ~ub'

\* C25: linenoise_hide and the linenoise_show that follows it leave buf,
\* len, pos, history_index, in_completion and completion_idx what they
\* were, and after the show the terminal shows what it showed before the
\* hide: the same cells and the same cursor position.
C25_HideShow ==
    [][\A c \in Ctx :
         /\ Called("hide", c) => EditStateOf(st'[c]) = EditStateOf(st[c])
         /\ (ev.op = "hide" /\ ev.c = c /\ Called("show", c))
               => /\ EditStateOf(st'[c]) = EditStateOf(st[c])
                  /\ ShownOn(term'.scr[c]) = ShownOn(term.hid[c])]_vars

(***************************************************************************)
(* The blocking read of a context whose input handle is a pipe or a file.  *)
(***************************************************************************)
\* Longest line of the piped input.
MaxPipeLine == 33

\* realloc(line, maxlen): the bytes kept, then bytes nothing wrote yet.
realloc(line, maxlen) == [k \in 1..maxlen |-> IF k <= Len(line) THEN line[k] ELSE 35]

\* The loop of linenoise_no_tty(): line, len and maxlen are its locals,
\* stream the bytes fgetc(stdin) has yet to return before EOF.
RECURSIVE NoTtyLoop(_, _, _, _)
NoTtyLoop(line, len, maxlen, stream) ==
    LET grown == IF len = maxlen THEN (IF maxlen = 0 THEN 16 ELSE maxlen) * 2 ELSE maxlen
        buf   == IF len = maxlen THEN realloc(line, grown) ELSE line
    IN  IF stream = <<>> \/ Head(stream) = 10
        THEN IF stream = <<>> /\ len = 0
             THEN [ret |-> RetNull, rest |-> <<>>]
             ELSE [ret |-> RetLine(strdup([buf EXCEPT ![len + 1] = 0])),
                   rest |-> IF stream = <<>> THEN <<>> ELSE Tail(stream)]
        ELSE NoTtyLoop([buf EXCEPT ![len + 1] = Head(stream)], len + 1, grown, Tail(stream))

\* linenoise_no_tty() returning NULL at end of input whatever it read.
linenoise_no_tty_EofNull(stream) ==
    IF \A k \in 1..Len(stream) : stream[k] # 10
    THEN [ret |-> RetNull, rest |-> <<>>]
    ELSE NoTtyLoop(<<>>, 0, 0, stream)

\* linenoise_no_tty()
linenoise_no_tty(stream) == NoTtyLoop(<<>>, 0, 0, stream)

\* linenoise_read(ctx, Prompt) of context c when isatty(STDIN_FILENO) is 0
\* and LINENOISE_ASSUME_TTY is not set: read_line calls linenoise_no_tty.
\* Streams: what the pipe can hold when nothing of it is left from the read
\* before.
ReadNoTty(c, Streams) ==
    /\ ~ub /\ NoRead /\ phase[c] = "idle"
    /\ \E s \in (IF inq[c] = <<>> THEN Streams ELSE {inq[c]}) :
       \E r \in {linenoise_no_tty(s)} :
         LET loc == [saved_maskmode |-> glob.maskmode, saved_mlmode |-> glob.mlmode,
                     saved_completion |-> glob.completionCallback,
                     saved_hints |-> glob.hintsCallback,
                     saved_freehints |-> glob.freeHintsCallback,
                     saved_history_len |-> glob.history_len,
                     saved_history_max_len |-> glob.history_max_len,
                     saved_history |-> glob.history]
             g1  == [glob EXCEPT !.maskmode = ctx[c].maskmode, !.mlmode = ctx[c].mlmode,
                                 !.completionCallback = ctx[c].completionCallback,
                                 !.hintsCallback = ctx[c].hintsCallback,
                                 !.freeHintsCallback = ctx[c].freeHintsCallback,
                                 !.history_len = ctx[c].history_len,
                                 !.history_max_len = ctx[c].history_max_len,
                                 !.history = ctx[c].history]
             cx  == [ctx EXCEPT ![c].history_len = g1.history_len,
                                ![c].history = g1.history]
             g2  == [g1 EXCEPT !.maskmode = loc.saved_maskmode,
                               !.mlmode = loc.saved_mlmode,
                               !.completionCallback = loc.saved_completion,
                               !.hintsCallback = loc.saved_hints,
                               !.freeHintsCallback = loc.saved_freehints,
                               !.history_len = loc.saved_history_len,
                               !.history_max_len = loc.saved_history_max_len,
                               !.history = loc.saved_history]
         IN  /\ glob' = g2
             /\ ctx' = cx
             /\ heap' = Release(heap, Refs(g2, edit_saved_state, cx, read_locals))
             /\ ret' = [ret EXCEPT ![c] = r.ret]
             /\ inq' = [inq EXCEPT ![c] = r.rest]
             /\ ev' = [Call("read_no_tty", c) EXCEPT !.input = s]
             /\ snap' = Snap("read", c)
             /\ UNCHANGED <<edit_saved_state, st, phase, errno, read_locals,
                            char_signed, fs, term, ub>>

\* What the pipe holds: a line of letters, ended by nothing, by a newline,
\* by a carriage return and a newline, or followed by a second line.
PipeStreams ==
    {[k \in 1..n |-> 97] \o end :
        n \in 0..MaxPipeLine, end \in {<<>>, <<10>>, <<13, 10>>, <<10, 97>>}}

AddPipe == \E line \in LinesWithEmpty : linenoise_history_add("A", line)
ReadPipe == ReadNoTty("A", PipeStreams)

NextPipe == AddPipe \/ ReadPipe

SpecPipe == InitHistory /\ [][NextPipe]_vars

\* The bytes of s before its first newline, all of s when it has none.
BeforeNewline(s) ==
    LET nl == {k \in 1..Len(s) : s[k] = 10}
    IN  IF nl = {} THEN s
        ELSE SubSeq(s, 1, (CHOOSE k \in nl : \A j \in nl : k <= j) - 1)

linenoise_read_null(c) ==
    /\ ~ub /\ NoRead /\ phase[c] = "idle"
    /\ ret' = [ret EXCEPT ![c] = RetNull]
    /\ ev' = [Call("read", c) EXCEPT !.used = [isnull |-> TRUE], !.rc = -1]
    /\ UNCHANGED <<glob, edit_saved_state, ctx, st, heap, phase, errno, inq,
                   read_locals, snap, char_signed, fs, term, ub>>

MisuseInputs == {Key(<<ENTER>>)}

AddMisuse == \E line \in LinesWithEmpty : linenoise_history_add("A", line)
StartMisuse ==
    \E isnull \in BOOLEAN, buflen \in {0, BufLen}, rawok \in BOOLEAN :
        linenoise_edit_start_args("A", isnull, buflen, rawok)
FeedMisuse == Feed("A", MisuseInputs, {FALSE})
StopMisuse == linenoise_edit_stop("A", {TRUE})
ReadNullMisuse == linenoise_read_null("A")

NextMisuse == AddMisuse \/ StartMisuse \/ FeedMisuse \/ StopMisuse \/ ReadNullMisuse

SpecMisuse == InitEdit /\ [][NextMisuse]_vars

\* C27: a start of a session with a NULL context or with a buffer size of
\* 0, and a blocking read with a NULL context, return an error and change
\* nothing: not the buffer, not the raw mode of the terminal, not the
\* history, not the file-scope settings.
C27_MisuseRejected ==
    [][(\/ ev'.op = "start" /\ (ev'.used.isnull \/ ev'.used.buflen = 0)
        \/ ev'.op = "read" /\ ev'.used = [isnull |-> TRUE])
          => /\ ev'.rc = -1
             /\ ~ub'
             /\ \A c \in Ctx : st'[c].buf = st[c].buf
             /\ glob' = glob
             /\ edit_saved_state' = edit_saved_state
             /\ \A c \in Ctx : HistoryOf(c)' = HistoryOf(c)]_vars

(***************************************************************************)
(* One context whose history holds lines up to the capacity of the edit    *)
(* buffer; the sessions type, move through the history and end with Enter. *)
(***************************************************************************)
\* A line that fills the edit buffer: BufLen - 1 bytes and the terminator.
FullLine == [k \in 1..(BufLen - 1) |-> 97]

RecallLines == {<<98>>, FullLine}

RecallInputs == {Key(Char_a), Key(Key_up), Key(Key_down), Key(<<ENTER>>)}

AddRecall ==
    \E line \in RecallLines : phase["A"] = "idle" /\ linenoise_history_add("A", line)
FeedRecall == Feed("A", RecallInputs, {FALSE})

NextRecall == AddRecall \/ StartEdit \/ FeedRecall \/ StopEdit

SpecRecall == InitHistory /\ [][NextRecall]_vars

\* The line and the cursor of a state struct.
LineOf(l) == [buf |-> Slice(l.buf, 0, l.len + 1), len |-> l.len, pos |-> l.pos]

\* The entry that is history_index steps back from the newest one.
EntryAt(idx) == ActiveHistory[Len(ActiveHistory) - idx]

\* C28: in a session 0 <= history_index < history_len; history-prev at the
\* oldest entry and history-next at index 0 leave buf, len, pos and
\* history_index as they are; a history move that succeeds sets pos and len
\* to the length of the entry it loads (of what fits of it in the buflen - 1
\* bytes of the buffer).
C28_HistoryIndex ==
    [][LET l == st["A"]
           n == st'["A"]
       IN  /\ (phase'["A"] = "editing" /\ ~ub')
                 => (0 <= n.history_index /\ n.history_index < glob'.history_len)
           /\ (\/ Pressed(Key_up) /\ l.history_index = glob.history_len - 1
               \/ Pressed(Key_down) /\ l.history_index = 0)
                 => (LineOf(n) = LineOf(l) /\ n.history_index = l.history_index)
           /\ ((Pressed(Key_up) \/ Pressed(Key_down)) /\ n.history_index # l.history_index)
                 => /\ n.pos = n.len
                    /\ n.len = Min(Len(EntryAt(n.history_index)), Len(l.buf) - 1)]_vars

\* history-prev and then history-next on A's session give back the line
\* that was being edited, the cursor at its end.
PrevNextRestores ==
    \E w0 \in {World(glob, "A", <<>>)} :
    \E w2 \in {Typed(w0, <<Key_up, Key_down>>)} :
        /\ ~w2.ub
        /\ w2.l.len = w0.l.len
        /\ w2.l.pos = w2.l.len
        /\ w2.l.history_index = 0
        /\ Slice(w2.l.buf, 0, w2.l.len + 1) = Slice(w0.l.buf, 0, w0.l.len + 1)

\* C29: with at least one committed entry in the history, history-prev
\* followed by history-next restores the line being edited, byte for byte,
\* with the same len and pos = len, whatever the line, up to the full
\* capacity of buflen - 1 bytes.
C29_EditSurvivesNavigation ==
    (phase["A"] = "editing" /\ ~ub /\ st["A"].history_index = 0 /\ glob.history_len > 1)
        => PrevNextRestores

(***************************************************************************)
(* One context whose application adds lines, the empty line too, and sets  *)
(* the maximum history length between sessions; the sessions type letters  *)
(* and end with Enter.                                                     *)
(***************************************************************************)
EnterInputs == {Key(Char_a), Key(<<ENTER>>)}

AddEnter ==
    \E line \in LinesWithEmpty : phase["A"] = "idle" /\ linenoise_history_add("A", line)
SetMaxLenEnter ==
    \E len \in 1..MaxLenArg : phase["A"] = "idle" /\ linenoise_history_set_max_len("A", len)
FeedEnter == Feed("A", EnterInputs, {FALSE})

NextEnter == AddEnter \/ SetMaxLenEnter \/ StartEdit \/ FeedEnter \/ StopEdit

SpecEnter == InitHistory /\ [][NextEnter]_vars

\* C30: once a session that pressed no history key has ended with Enter and
\* was stopped, the history of its context holds the entries it held before
\* the session, in the same order: also a history that was full, and one
\* whose newest entry is the empty line.
C30_EnterKeepsHistory ==
    (/\ ~ub /\ phase["A"] = "idle" /\ ev.op = "stop"
     /\ snap["A"].op = "start" /\ ret["A"].kind = "line")
        => HistoryOf("A") = snap["A"].h

(***************************************************************************)
(* Sessions that type letters of one and two bytes, move left and          *)
(* transpose with Ctrl-T.                                                  *)
(***************************************************************************)
Char_b == <<98>>

TransposeInputs ==
    {Key(Char_a), Key(Char_b), Key(Key_eacute), Key(Key_left), Key(<<CTRL_T>>)}

FeedTranspose == Feed("A", TransposeInputs, {FALSE})

NextTranspose == StartGrapheme \/ FeedTranspose

SpecTranspose == InitGrapheme /\ [][NextTranspose]_vars

\* The line b[0 .. len) with its clusters b[p .. m) and b[m .. n) swapped.
Swapped(b, len, p, m, n) ==
    Slice(b, 0, p) \o Slice(b, m, n) \o Slice(b, p, m) \o Slice(b, n, len)

\* C31: Ctrl-T with a grapheme on each side of the cursor swaps the one
\* before pos with the one at pos; with the cursor at the end of the line it
\* swaps the two graphemes before pos; pos ends just past the pair, len and
\* the bytes outside the pair stay; when there are no two such graphemes
\* nothing changes.
C31_Transpose ==
    [][Pressed(<<CTRL_T>>) =>
         LET l  == st["A"]
             n  == st'["A"]
             p1 == PrevBoundary(l.buf, l.len, l.pos)
             p0 == PrevBoundary(l.buf, l.len, p1)
             nx == NextBoundary(l.buf, l.len, l.pos)
         IN  /\ n.len = l.len
             /\ ret'["A"].kind = "more"
             /\ IF l.pos > 0 /\ l.pos < l.len
                THEN /\ Slice(n.buf, 0, n.len) = Swapped(l.buf, l.len, p1, l.pos, nx)
                     /\ n.pos = nx
                ELSE IF l.pos = l.len /\ p1 > 0
                THEN /\ Slice(n.buf, 0, n.len) = Swapped(l.buf, l.len, p0, p1, l.len)
                     /\ n.pos = l.len
                ELSE /\ Slice(n.buf, 0, n.len) = Slice(l.buf, 0, l.len)
                     /\ n.pos = l.pos]_vars

(***************************************************************************)
(* Sessions that type words, spaces and combining marks, move left and     *)
(* delete the previous word with Ctrl-W.                                   *)
(***************************************************************************)
Char_space == <<32>>

WordInputs ==
    {Key(Char_a), Key(Char_space), Key(Char_zwj), Key(Key_left), Key(<<CTRL_W>>)}

FeedWord == Feed("A", WordInputs, {FALSE})

\* Size of the edit buffer of these sessions.
WordBufLen == 8

InitWord ==
    InitStates([c \in Ctx |-> linenoise_context_create], {FALSE},
               {[c \in Ctx |-> WideState(WordBufLen)]}, {NoFile})

NextWord == StartGrapheme \/ FeedWord

SpecWord == InitWord /\ [][NextWord]_vars

\* The start of the maximal run of ASCII spaces that ends at pos.
SpaceStart(b, pos) ==
    CHOOSE s \in 0..pos :
        /\ \A k \in s..(pos - 1) : At(b, k) = 32
        /\ s > 0 => At(b, s - 1) # 32

\* Whether the grapheme of b[0 .. len) that starts at the boundary i ends
\* with an ASCII space.
IsSpaceGrapheme(b, len, i) == At(b, i + utf8NextCharLen(b, i, len) - 1) = 32

\* The start of the maximal run of non-space graphemes that ends at s, the
\* graphemes being those of the text b[0 .. s) left of the spaces.
WordStart(b, s) ==
    LET B == GraphemeBoundaries(b, s)
        ok(t) == /\ t \in B
                 /\ \A i \in B : (t <= i /\ i < s) => ~IsSpaceGrapheme(b, s, i)
    IN  CHOOSE t \in 0..s : ok(t) /\ \A u \in 0..(t - 1) : ~ok(u)

\* C32: Ctrl-W removes the maximal run of ASCII spaces left of the cursor
\* and the maximal run of non-space graphemes left of those, and nothing
\* else: pos becomes the start of that range, len shrinks by its length,
\* the bytes before it and from the old cursor on stay, buf[len] is NUL.
C32_DeletePrevWord ==
    [][Pressed(<<CTRL_W>>) =>
         LET l == st["A"]
             n == st'["A"]
             t == WordStart(l.buf, SpaceStart(l.buf, l.pos))
         IN  /\ n.pos = t
             /\ n.len = l.len - (l.pos - t)
             /\ Slice(n.buf, 0, n.len) = Slice(l.buf, 0, t) \o Slice(l.buf, l.pos, l.len)
             /\ At(n.buf, n.len) = 0]_vars

\* The keys of SpecGrapheme that type a codepoint.
TypedKeys == {Char_a, Key_eacute, Char_mark, Char_zwj, Key_emoji}

\* C33: an insert of n bytes into a line with len + n above the capacity is
\* dropped: buf, len and pos stay, nothing is written to the terminal, the
\* bytes of the codepoint are taken from the input, and feed returns more.
C33_FullBufferDrop ==
    [][\A k \in TypedKeys :
         (Pressed(k) /\ st["A"].len + Len(k) > st["A"].buflen)
            => /\ st'["A"].buf = st["A"].buf
               /\ st'["A"].len = st["A"].len
               /\ st'["A"].pos = st["A"].pos
               /\ ev'.out = <<>>
               /\ term' = term
               /\ inq'["A"] = <<>>
               /\ ret'["A"].kind = "more"
               /\ phase'["A"] = "editing"]_vars

\* A letter of two bytes was typed in the middle of a line with one byte
\* free, and dropped.
C33_Witness ==
    /\ ev.op = "feed" /\ ev.input = Key_eacute /\ ev.out = <<>> /\ ~ub
    /\ st["A"].len = st["A"].buflen - 1
    /\ st["A"].pos > 0 /\ st["A"].pos < st["A"].len
    /\ ret["A"].kind = "more"

(***************************************************************************)
(* A multi-line session on a narrow terminal, with history to recall.      *)
(***************************************************************************)
\* Columns of the terminal of the multi-line session.
MultiCols == 3
\* Size of the edit buffer of the multi-line session.
MultiBufLen == 7

MultiLines == {<<97, 97, 97, 97>>}

MultiInputs == {Key(Key_cjk), Key(<<BACKSPACE>>), Key(Key_up), Key(Key_down)}

InitMulti ==
    InitTerm([c \in Ctx |-> [linenoise_context_create EXCEPT !.mlmode = 1]], {FALSE},
             {[c \in Ctx |-> WideState(MultiBufLen)]}, {NoFile}, {MultiCols})

AddMulti ==
    \E line \in MultiLines : phase["A"] = "idle" /\ linenoise_history_add("A", line)
FeedMulti == Feed("A", MultiInputs, {FALSE})

NextMulti == AddMulti \/ StartGrapheme \/ FeedMulti

SpecMulti == InitMulti /\ [][NextMulti]_vars

\* The rows of a terminal cols columns wide that was blank before the prompt
\* and the line were written to it.
FreshRows(l, cols) ==
    PutAll(BlankScreen, <<TokText(Prompt), TokText(Slice(l.buf, 0, l.len))>>, cols).rows

\* The rows a screen's render takes: down to the last row with a glyph on
\* it, or to the cursor's row when that is lower.
RowsTaken(scr) ==
    Max(scr.r, Max(0, CHOOSE n \in 0..TermRows :
                         /\ n > 0 => scr.rows[n] # <<>>
                         /\ \A k \in (n + 1)..TermRows : scr.rows[k] = <<>>))

\* The last call was a feed to A's multi-line session that rendered the
\* line, and the terminal's cursor stayed on the rows kept track of.
RenderedMulti ==
    /\ ev.op = "feed" /\ ev.c = "A" /\ ~ub /\ ~term.scr["A"].lost
    /\ ev.rendered = <<Slice(st["A"].buf, 0, st["A"].len)>>

\* C34: after a key of a multi-line session that rendered the line,
\* oldrows and oldrpos are the row count and the cursor row the render left
\* on the terminal, and the terminal shows the prompt and the line and
\* nothing else: no row holds text of an earlier render.
C34_MultiLineClears ==
    RenderedMulti
        => /\ st["A"].oldrows = RowsTaken(term.scr["A"])
           /\ st["A"].oldrpos = term.scr["A"].r
           /\ term.scr["A"].rows = FreshRows(st["A"], term.cols)

(***************************************************************************)
(* A session with a hints callback on a narrow terminal.                   *)
(***************************************************************************)
HintInputs ==
    {Key(Char_a), Key(Key_cjk), Key(<<BACKSPACE>>), Key(Key_left), Key(Key_right)}

InitHints ==
    InitTerm([c \in Ctx |-> [linenoise_context_create EXCEPT !.hintsCallback = 1]], {FALSE},
             {[c \in Ctx |-> WideState(WideBufLen)]}, {NoFile}, {NarrowCols})

FeedHints == Feed("A", HintInputs, {FALSE})

NextHints == StartGrapheme \/ FeedHints

SpecHints == InitHints /\ [][NextHints]_vars

\* The last call was a feed to A's session whose frame has a hint in it:
\* "\r", the prompt, the line, the hint the callback returned, ESC [ 0 K,
\* "\r" and ESC [ n C.
DrewHint ==
    /\ ev.op = "feed" /\ ev.c = "A" /\ ~ub
    /\ Len(ev.out) = 8
    /\ ev.out[2] = TokText(Prompt) /\ ev.out[3].op = "text"
    /\ ev.out[4] = TokHintReturned /\ ev.out[5].op = "text"
    /\ ev.out[5].s # <<>>

HintPart == ev.out[5].s

\* part is the hint cut at one of its grapheme boundaries.
CutAtBoundary(part, hint) ==
    /\ Len(part) <= Len(hint)
    /\ part = Slice(hint, 0, Len(part))
    /\ Len(part) \in GraphemeBoundaries(hint, Len(hint))

\* C35: a frame has a hint in it only when the cursor is at the end of the
\* line and the prompt and the line are narrower than the terminal, and the
\* part of the hint in the frame is the hint cut at a grapheme boundary, no
\* wider than the columns the prompt and the line leave.
C35_HintFits ==
    DrewHint =>
        LET l == st["A"]
            used == PromptWidth + utf8StrWidth(l.buf, l.len)
        IN  /\ l.pos = l.len
            /\ used < term.cols
            /\ CutAtBoundary(HintPart, Hints(Slice(l.buf, 0, l.len)))
            /\ utf8StrWidth(HintPart, Len(HintPart)) <= term.cols - used

(***************************************************************************)
(* Typing at the end of the line, in each mode: plain, mask, multi-line    *)
(* and with a hints callback, on a narrow terminal.                        *)
(***************************************************************************)
FastConfigs ==
    {linenoise_context_create,
     [linenoise_context_create EXCEPT !.maskmode = 1],
     [linenoise_context_create EXCEPT !.mlmode = 1],
     [linenoise_context_create EXCEPT !.hintsCallback = 1]}

FastInputs == {Key(Char_a), Key(Key_cjk), Key(Char_mark), Key(Key_left)}

InitFast ==
    \E cf \in FastConfigs :
        InitTerm([c \in Ctx |-> cf], {FALSE}, {[c \in Ctx |-> WideState(WideBufLen)]},
                 {NoFile}, {NarrowCols})

FeedFast == Feed("A", FastInputs, {FALSE})

NextFast == StartGrapheme \/ FeedFast

SpecFast == InitFast /\ [][NextFast]_vars

\* The last call was a feed to A's session that wrote bytes to the terminal
\* directly, with no frame: the append fast path of linenoise_edit_insert.
WroteDirectly ==
    /\ ev.op = "feed" /\ ev.c = "A" /\ ~ub
    /\ Len(ev.out) = 1 /\ ev.out[1].op = "text"

\* What refresh_line would write for the state A's session is in.
FullRender == Drawn(refresh_line(World(glob, "A", <<>>))).out

\* C36: the append fast path is taken only in single-line mode with no hints
\* callback and a prompt and line narrower than the terminal, and what the
\* terminal shows after it, cells and cursor, is what a full render of the
\* edit state shows: rendering the state again changes nothing.
C36_FastPathIsFullRender ==
    WroteDirectly =>
        /\ glob.mlmode = 0 /\ glob.hintsCallback = 0
        /\ st["A"].pos = st["A"].len
        /\ PromptWidth + utf8StrWidth(st["A"].buf, st["A"].len) < term.cols
        /\ ShownOn(PutAll(term.scr["A"], FullRender, term.cols)) = ShownOn(term.scr["A"])

(***************************************************************************)
(* A session on a narrow terminal whose writes to the terminal can fail.   *)
(***************************************************************************)
WriteFailInputs == {Key(Char_a), Key(<<BACKSPACE>>), Key(Key_left), Key(<<ENTER>>)}

FeedWriteFail == Feed("A", WriteFailInputs, BOOLEAN)

NextWriteFail == StartGrapheme \/ FeedWriteFail

SpecWriteFail == InitScroll /\ [][NextWriteFail]_vars

\* C37: whether or not the writes to the terminal fail, a key fed to the
\* session leaves the edit state and returns the value it leaves and returns
\* when every write succeeds; a failed write never ends the session.
C37_WriteFailureSwallowed ==
    [][(ev'.op = "feed" /\ ev'.c = "A" /\ ~ub')
          => \E w \in {Drawn(linenoise_edit_feed(World(glob, "A", ev'.input), "ok", 35, FALSE,
                                                 char_signed))} :
                 /\ st'["A"] = w.l
                 /\ ret'["A"] = w.ret]_vars

(***************************************************************************)
(* Sessions on terminals of every width from one column to NarrowCols.     *)
(***************************************************************************)
TinyInputs == {Key(Char_a), Key(Key_cjk), Key(Char_mark), Key(<<BACKSPACE>>), Key(Key_left)}

InitTiny ==
    InitTerm([c \in Ctx |-> linenoise_context_create], {FALSE},
             {[c \in Ctx |-> WideState(WideBufLen)]}, {NoFile}, 1..NarrowCols)

FeedTiny == Feed("A", TinyInputs, {FALSE})

NextTiny == StartGrapheme \/ FeedTiny

SpecTiny == InitTiny /\ [][NextTiny]_vars

\* C38: for every edit state a session reaches, on a terminal of any width,
\* the two loops of the single-line renderer end, and the len and pos they
\* leave for the part of the line to show are not below 0.
C38_RendererTerminates ==
    (phase["A"] = "editing" /\ ~ub)
        => \E v \in {SingleView(st["A"], PromptWidth)} :
               ~v.hang /\ v.len >= 0 /\ v.pos >= 0

(***************************************************************************)
(* History calls on the context while its session runs (SpecMid).          *)
(***************************************************************************)
\* The context's history was last changed by linenoise_history_add or
\* linenoise_history_set_max_len, called after the start of the session
\* that is running or has ended and is not stopped yet.
ChangedInSession ==
    /\ phase["A"] \in {"editing", "ended"}
    /\ snap["A"].op \in {"history_add", "set_max_len"}

\* C39: once linenoise_history_add or linenoise_history_set_max_len was
\* called on the context of a running session, no later call reads or frees
\* an array that is no longer allocated, and after linenoise_edit_stop the
\* context's history has the line the last such add left at its tail and is
\* no longer than the context's history_max_len.
C39_MidSessionHistory ==
    [][ChangedInSession
          => /\ ~ub'
             /\ (ev'.op = "stop" /\ ev'.c = "A")
                   => /\ ctx'["A"].history_len <= ctx'["A"].history_max_len
                      /\ (snap["A"].op = "history_add" /\ snap["A"].h # <<>>)
                            => \E k \in 1..ctx'["A"].history_len :
                                   Entries(heap', ctx'["A"].history,
                                           ctx'["A"].history_len)[k]
                                      = snap["A"].h[Len(snap["A"].h)]]_vars

(***************************************************************************)
(* A session with a completion callback and a hints callback, with or      *)
(* without a free-hints callback; the application hides and shows the line *)
(* too.                                                                    *)
(***************************************************************************)
ResourceInputs == {Key(Char_a), Key(<<TAB>>), Key(<<ESC>>), Key(<<BACKSPACE>>)}

InitResource ==
    \E f \in {0, 1} :
        InitStates([c \in Ctx |-> [linenoise_context_create
                                      EXCEPT !.completionCallback = 1, !.hintsCallback = 1,
                                             !.freeHintsCallback = f]],
                   {FALSE}, {[c \in Ctx |-> WideState(WideBufLen)]}, {NoFile})

FeedResource == ~Hidden /\ Feed("A", ResourceInputs, {FALSE})
HideResource == ~Hidden /\ Hide("A")
ShowResource == Hidden /\ Show("A")

NextResource == StartGrapheme \/ FeedResource \/ HideResource \/ ShowResource

SpecResource == InitResource /\ [][NextResource]_vars

\* How many resources are held after the events of toks, n being held
\* before them; -1 when one is obtained while another is held or one is
\* released while none is held.
RECURSIVE Held(_, _, _, _)
Held(toks, n, got, freed) ==
    IF toks = <<>> \/ n < 0 THEN n
    ELSE IF Head(toks) = got THEN Held(Tail(toks), IF n = 0 THEN 1 ELSE -1, got, freed)
    ELSE IF Head(toks) = freed THEN Held(Tail(toks), IF n = 1 THEN 0 ELSE -1, got, freed)
    ELSE Held(Tail(toks), n, got, freed)

\* C40: in every key event and every linenoise_show, each candidate list
\* the completion callback filled is freed once before the call returns,
\* and with a free-hints callback registered each hint the hints callback
\* returned is passed to it once; nothing is freed that is not held.
C40_ReleasedOnce ==
    (ev.op \in {"feed", "show"} /\ ~ub)
        => /\ Held(ev.out, 0, TokListFilled, TokListFreed) = 0
           /\ glob.freeHintsCallback # 0
                 => Held(ev.out, 0, TokHintReturned, TokHintFreed) = 0
           /\ glob.freeHintsCallback = 0
                 => \A k \in 1..Len(ev.out) : ev.out[k] # TokHintFreed

\* A Tab on the line "a" showed the first candidate with its hint: a list
\* was filled and freed and a hint returned and freed in one key event.
C40_Witness ==
    /\ ev.op = "feed" /\ ev.input = <<TAB>> /\ ~ub
    /\ glob.freeHintsCallback # 0
    /\ \E i, j, k, m \in 1..Len(ev.out) :
          /\ i < j /\ j < k /\ k < m
          /\ ev.out[i] = TokListFilled /\ ev.out[j] = TokHintReturned
          /\ ev.out[k] = TokHintFreed /\ ev.out[m] = TokListFreed

====
